---- MODULE Spec2Model ----
(***************************************************************************)
(* Model of the Mikrotik L2TP/IPv6 automation (mikrotik_l2tp_automation.py *)
(* and the modules it drives).                                             *)
(*                                                                         *)
(* Text is modelled as a sequence of atoms: an atom is either a single     *)
(* character ("a", "<", "/") or a whole word or phrase that the code only  *)
(* ever tests as a unit ("failure", "already have such address").  The     *)
(* atom NL is the line break.  Python's `x in s` is the contiguous         *)
(* sub-sequence test, `s.lower()` maps the atoms through LowerAtom.        *)
(***************************************************************************)
EXTENDS Integers, Sequences, FiniteSets, TLC

\* ------------------------------------------------------------------ bounds
\* Largest number of tunnels in tunnel_mapping.txt.
MaxTunnels == 2
\* Largest number of hosts in hosts_clients_l2tp.txt.
MaxHosts == 2
\* Largest number of IPv6 addresses a device holds before the first call.
MaxAddresses == 2
\* Largest number of IPv6 routes a device holds before the first call.
MaxRoutes == 1
\* Largest number of add_ipv6_address / add_ipv6_route calls in a row.
MaxCalls == 2
\* Largest number written in a reply.
MaxNumber == 100

\* ------------------------------------------------------------------- text
\* Python's None, as returned by execute_command on a transport error.
None == <<"<None>">>

NL == "\n"

\* Python truthiness of an Optional[str]: None and "" are falsy.
Truthy(s) == s # None /\ s # <<>>

\* str.lower() on one atom: the atoms that have an upper-case form.
LowerAtom(a) ==
    CASE a = "A" -> "a"
      [] a = "B" -> "b"
      [] a = "C" -> "c"
      [] a = "L" -> "l"
      [] a = "T" -> "t"
      [] a = "P" -> "p"
      [] a = "R" -> "r"
      [] a = "FAILURE" -> "failure"
      [] a = "SYNTAX ERROR" -> "syntax error"
      [] a = "Already have such address" -> "already have such address"
      [] a = "Already have such route" -> "already have such route"
      [] OTHER -> a

\* str.lower()
Lower(s) == [i \in 1..Len(s) |-> LowerAtom(s[i])]

\* Python's `needle in hay` for strings.
Contains(hay, needle) ==
    \E i \in 1..(Len(hay) - Len(needle) + 1) :
        SubSeq(hay, i, i + Len(needle) - 1) = needle

\* Position of the first occurrence of atom a in s at or after position from,
\* 0 when there is none.
FindAtom(s, a, from) ==
    IF \E i \in from..Len(s) : s[i] = a
    THEN CHOOSE i \in from..Len(s) : s[i] = a /\ \A j \in from..(i - 1) : s[j] # a
    ELSE 0

\* str.split(sep) for a one-atom separator.
RECURSIVE SplitOn(_, _)
SplitOn(s, sep) ==
    LET p == FindAtom(s, sep, 1)
    IN  IF p = 0 THEN <<s>>
        ELSE <<SubSeq(s, 1, p - 1)>> \o SplitOn(SubSeq(s, p + 1, Len(s)), sep)

\* "\n".join(lines)
RECURSIVE JoinLines(_)
JoinLines(lines) ==
    IF lines = <<>> THEN <<>>
    ELSE IF Len(lines) = 1 THEN lines[1]
    ELSE lines[1] \o <<NL>> \o JoinLines(Tail(lines))

\* ------------------------------------------------------- command replies
\* Rejection test shared by every configuration step:
\* output and ("syntax error" in output.lower() or "failure" in output.lower())
is_rejection(output) ==
    /\ Truthy(output)
    /\ \/ Contains(Lower(output), <<"syntax error">>)
       \/ Contains(Lower(output), <<"failure">>)

\* Mutant of add_step_outcome: a rejection is logged but never fails the step.
add_step_outcome_never_failed(output, marker) ==
    IF is_rejection(output) THEN "Skipped" ELSE "Applied"

\* Outcome of one add step of the L2TP manager, given the reply to the add
\* command and the idempotent-conflict marker of that step.
add_step_outcome(output, marker) ==
    IF is_rejection(output)
    THEN IF ~Contains(Lower(output), marker) THEN "Failed" ELSE "Skipped"
    ELSE "Applied"

ADDR_MARKER == <<"already have such address">>
ROUTE_MARKER == <<"already have such route">>

\* MikrotikConnection.execute_command: None without a connection or when the
\* transport raises (timeout, EOF), the device's reply otherwise.
NoConn == -1
execute_command(conn, transport_ok, reply) ==
    IF conn = NoConn THEN None
    ELSE IF ~transport_ok THEN None
    ELSE reply

\* MikrotikConnection.is_connected
is_connected(conn) == conn # NoConn

\* Mutant of disconnect: the reference is dropped without closing the transport.
disconnect_keep_open(conn, open) ==
    [connection |-> NoConn, sessions |-> open]

\* MikrotikConnection.disconnect: closes the transport it holds and drops the
\* reference; a connection object that holds nothing does nothing.
disconnect(conn, open) ==
    IF conn # NoConn
    THEN [connection |-> NoConn, sessions |-> open \ {conn}]
    ELSE [connection |-> conn, sessions |-> open]

\* ------------------------------------------------------ tunnel lookup
L2TP == <<"l", "2", "t", "p">>

\* re.search(r'<([^>]*l2tp[^>]*)>', line): the leftmost "<" whose text up to
\* the next ">" contains "l2tp" (case-sensitive); the group is that text.
\* <<>> stands for "no match" (a match is never empty: it contains l2tp).
BracketAt(line, i) ==
    LET j == FindAtom(line, ">", i + 1)
    IN  IF line[i] = "<" /\ j # 0 /\ Contains(SubSeq(line, i + 1, j - 1), L2TP)
        THEN SubSeq(line, i + 1, j - 1)
        ELSE <<>>

search_l2tp_bracket(line) ==
    IF \E i \in 1..Len(line) : BracketAt(line, i) # <<>>
    THEN BracketAt(line, CHOOSE i \in 1..Len(line) :
                            /\ BracketAt(line, i) # <<>>
                            /\ \A k \in 1..(i - 1) : BracketAt(line, k) = <<>>)
    ELSE <<>>

\* Whether a line of the l2tp-server listing is taken for tunnel_name.
line_matches_tunnel(line, tunnel_name) ==
    /\ Contains(Lower(line), Lower(tunnel_name))
    /\ Contains(Lower(line), L2TP \o <<"-">>)
    /\ search_l2tp_bracket(line) # <<>>

\* MikrotikL2TPManager._find_l2tp_tunnel_by_name on the reply to
\* "/interface l2tp-server print": the interface of the first matching line,
\* <<>> (Python None) when the reply is absent/empty or no line matches.
find_l2tp_tunnel_by_name(output, tunnel_name) ==
    IF ~Truthy(output) THEN <<>>
    ELSE LET lines == SplitOn(output, NL)
             hits == {i \in 1..Len(lines) : line_matches_tunnel(lines[i], tunnel_name)}
         IN  IF hits = {} THEN <<>>
             ELSE search_l2tp_bracket(lines[CHOOSE i \in hits : \A k \in hits : i <= k])

\* Mutant of interface_exists: any non-empty reply counts as "exists".
interface_exists_any_output(output, interface_name) ==
    Truthy(output)

\* MikrotikL2TPManager._interface_exists on the reply to
\* "/interface print where name=<interface_name>".
interface_exists(output, interface_name) ==
    Truthy(output) /\ Contains(output, interface_name)

\* ------------------------------------------------ devices (environment)
\* Names used in the desired state and on the devices.
TunnelNames == { <<"a", "b">>, <<"c", "a">>, <<"b">> }
HostNames == {"h1", "h2"}
\* The client hosts of hosts_clients_l2tp.txt: one reached over SSH, one over
\* telnet.
ClientHosts ==
    { [hostname |-> "h1", method |-> <<"SSH">>], [hostname |-> "h2", method |-> <<"telnet">>] }
BridgeName == <<"b", "r">>
EtherName == <<"e", "1">>

\* One line of the l2tp-server listing for the session of user u:
\*   0 DR <l2tp-u> u
SessionLine(u) == <<"0", " ", "D", "R", " ", "<">> \o L2TP \o <<"-">> \o u \o <<">", " ">> \o u

L2tpHeader == <<"F", "l", "a", "g", "s", ":", " ", "R">>

\* The reply of a device with the given live sessions to
\* "/interface l2tp-server print".
RenderL2tp(users) == JoinLines(<<L2tpHeader>> \o [i \in 1..Len(users) |-> SessionLine(users[i])])

\* The live sessions a server may have.
ServerSessions == { <<>>, << <<"a", "b">> >> }

\* The interfaces a client device may have.
ClientIfaces == { {BridgeName, EtherName}, {EtherName} }

\* The reply of a device with interfaces ifs to "/interface print where name=n":
\* the header and one line for the interface of that name, if any.
RenderIfacePrint(ifs, n) ==
    JoinLines(<<L2tpHeader>> \o (IF n \in ifs THEN << <<"0", " ", "R", " ">> \o n >> ELSE <<>>))

\* Replies a device gives to an add command.
AddReplies ==
    { <<>>,
      <<"o", "k">>,
      <<"failure", ":", "x">>,
      <<"FAILURE">>,
      <<"syntax error">>,
      <<"failure", ":", "already have such address">>,
      <<"failure", ":", "already have such route">>,
      <<"already have such address">>,
      <<"already have such route">> }

\* mtu_sizes of _test_mtu_ipv6
mtu_sizes == <<1280, 1300, 1400, 1500, 1600, 1700, 1800, 1900, 2000>>

\* Targets probed after a client configuration: the gateway and two external.
NumPingTargets == 3

\* ------------------------------------------------------------- state
VARIABLES
    pc,               \* position of the run (mikrotik_l2tp_automation.py)
    creds,            \* MIKROTIK_USERNAME and MIKROTIK_PASSWORD are both set
    tunnel_mappings,  \* load_tunnel_mapping(): tunnel names in file order; the
                      \* part the loop of configure_l2tp_server has not consumed
    client_mappings,  \* load_client_mapping(): the hostnames that have a mapping
    client_hosts,     \* load_hosts(): [hostname, method] in file order; the part
                      \* the loop of configure_l2tp_clients has not consumed
    n_tunnels,        \* len(tunnel_mappings) as loaded
    n_hosts,          \* len(client_hosts) as loaded
    connection,       \* MikrotikConnection.connection of the current object
    connection_type,  \* MikrotikConnection.connection_type
    sessions,         \* devices holding a session this run opened and has not closed
    device,           \* what the connected device answers to listings
    idx,              \* position of the current item in its list
    success_count,    \* success_count of the running pass
    total_count,      \* total_count of the running pass
    server_success,   \* configure_l2tp_server's return value
    exit_code,        \* sys.exit code, -1 while running
    ret,              \* return value of the manager call of the current item
    cmds,             \* kinds of the commands sent for the current item, in order
    last,             \* the latest command sent and the kind of reply it got
    probe,            \* position inside test_ipv6_connectivity
    tally,            \* history: how the items of the run ended
    step,             \* position inside a call of MikrotikIPv6Config / MikrotikRoutes
    dev_addresses,    \* the device's IPv6 address table, in listing order
    dev_routes,       \* the device's IPv6 route table, in listing order
    call,             \* the call in progress, or the latest one: function and arguments
    listing,          \* reply to the print command of that call
    add_reply,        \* reply to the add command of that call
    result,           \* what that call returned
    prev,             \* history: the call before that one, its add reply and its result
    ncalls,           \* number of calls made
    unit,             \* the function applied on its own, "-" before it is
    given,            \* what it was applied to
    got               \* what it returned

vars == <<pc, creds, tunnel_mappings, client_mappings, client_hosts, n_tunnels, n_hosts,
          connection, connection_type, sessions, device, idx, success_count, total_count,
          server_success, exit_code, ret, cmds, last, probe, tally,
          step, dev_addresses, dev_routes, call, listing, add_reply, result, prev, ncalls,
          unit, given, got>>

\* Sequences over S of length at most n.
SeqsUpTo(S, n) == UNION {[1..k -> S] : k \in 0..n}

\* A dict has no two equal keys.
Distinct(q) == \A i, j \in 1..Len(q) : q[i] = q[j] => i = j

\* ------------------------------------------- direct calls of the modules
\* No command of that kind was sent.
Unsent == <<"<unsent>">>

NoCall == [f |-> "-", interface |-> <<>>, address |-> <<>>, dst_address |-> <<>>,
           gateway |-> <<>>]

NoPrev == [call |-> NoCall, reply |-> Unsent, result |-> FALSE]

Engine == <<step, dev_addresses, dev_routes, call, listing, add_reply, result, prev, ncalls>>

\* The run of main() calls neither MikrotikIPv6Config nor MikrotikRoutes.
EngineOff ==
    /\ step = "off"
    /\ dev_addresses = <<>>
    /\ dev_routes = <<>>
    /\ call = NoCall
    /\ listing = Unsent
    /\ add_reply = Unsent
    /\ result = FALSE
    /\ prev = NoPrev
    /\ ncalls = 0

\* ------------------------------------------- functions applied on their own
Units == <<unit, given, got>>

\* No function is applied on its own.
UnitsOff ==
    /\ unit = "-"
    /\ given = <<>>
    /\ got = <<>>

NoDevice == [sessions |-> <<>>, ifaces |-> {}]

ZeroTally == [tAttempt |-> 0, tOk |-> 0, tMiss |-> 0, hVisited |-> 0, hSkip |-> 0, hOk |-> 0]

NoCmd == [c |-> "-", r |-> "-"]

\* How the reply to an add command looks to the operator of the device,
\* whatever the code makes of it: no reply at all, an empty one, one that
\* reports the fact as already present, a rejection, or anything else.
ReplyKind(output, marker) ==
    IF output = None THEN "absent"
    ELSE IF output = <<>> THEN "empty"
    ELSE IF Contains(Lower(output), marker) THEN "conflict"
    ELSE IF Contains(Lower(output), <<"syntax error">>) \/ Contains(Lower(output), <<"failure">>)
         THEN "rejected"
    ELSE "plain"

Sent(c, output, marker) == [c |-> c, r |-> ReplyKind(output, marker)]

SentQuery(c, output) == [c |-> c, r |-> IF output = None THEN "absent" ELSE "answered"]

Bump(f) == [tally EXCEPT ![f] = @ + 1]
Bump2(f, g) == [tally EXCEPT ![f] = @ + 1, ![g] = @ + 1]

Init ==
    /\ pc = "main"
    /\ creds \in BOOLEAN
    /\ tunnel_mappings \in {q \in SeqsUpTo(TunnelNames, MaxTunnels) : Distinct(q)}
    /\ client_mappings \in SUBSET HostNames
    /\ client_hosts \in SeqsUpTo(ClientHosts, MaxHosts)
    /\ n_tunnels = Len(tunnel_mappings)
    /\ n_hosts = Len(client_hosts)
    /\ connection = NoConn
    /\ connection_type = "none"
    /\ sessions = {}
    /\ device = NoDevice
    /\ idx = 0
    /\ success_count = 0
    /\ total_count = 0
    /\ server_success = FALSE
    /\ exit_code = -1
    /\ ret = "none"
    /\ cmds = <<>>
    /\ last = NoCmd
    /\ probe = 0
    /\ tally = ZeroTally
    /\ EngineOff
    /\ UnitsOff

Inputs == <<creds, client_mappings, n_tunnels, n_hosts>>
Lists == <<tunnel_mappings, client_hosts>>
Conn == <<connection, connection_type, sessions, device>>
Counts == <<success_count, total_count>>

\* ------------------------------------------------------------- main
\* main(), lines 246-273: credentials and desired state, or exit 1.
MainStart ==
    /\ pc = "main"
    /\ IF ~creds
       THEN pc' = "exited" /\ exit_code' = 1
       ELSE IF tunnel_mappings = <<>> \/ client_mappings = {}
       THEN pc' = "exited" /\ exit_code' = 1
       ELSE IF client_hosts = <<>>
       THEN pc' = "exited" /\ exit_code' = 1
       ELSE pc' = "server_connect" /\ exit_code' = exit_code
    /\ UNCHANGED <<Engine, Units, Inputs, Lists, Conn, idx, Counts, server_success, ret, cmds, last,
                   probe, tally>>

\* Mutant of overall_success: the server's result is left out.
overall_success_clients_only(srv, ok, total) == ok = total

\* overall_success of main(), line 295.
overall_success(srv, ok, total) == srv /\ (ok = total)

\* main(), lines 285-302: the final report and the exit code.
MainReport ==
    /\ pc = "report"
    /\ exit_code' = IF overall_success(server_success, success_count, total_count) THEN 0 ELSE 1
    /\ pc' = "exited"
    /\ UNCHANGED <<Engine, Units, Inputs, Lists, Conn, idx, Counts, server_success, ret, cmds, last,
                   probe, tally>>

\* ----------------------------------------------------- connections
ServerDev == 0

\* MikrotikConnection.connect_ssh on a fresh object: on success the object
\* holds the session to dev, on failure it holds nothing.
connect_ssh(open, dev, ok) ==
    IF ok THEN [connection |-> dev, connection_type |-> "ssh", sessions |-> open \cup {dev}]
    ELSE [connection |-> NoConn, connection_type |-> "none", sessions |-> open]

\* MikrotikConnection.connect_telnet on a fresh object.
connect_telnet(open, dev, ok) ==
    IF ok THEN [connection |-> dev, connection_type |-> "telnet", sessions |-> open \cup {dev}]
    ELSE [connection |-> NoConn, connection_type |-> "none", sessions |-> open]

\* The finally clause of both passes: connection.disconnect().
Disconnected ==
    LET d == disconnect(connection, sessions)
    IN  /\ connection' = d.connection
        /\ sessions' = d.sessions
        /\ connection_type' = "none"
        /\ device' = NoDevice

\* ----------------------------------------------------- server pass
\* configure_l2tp_server, lines 138-144: connect or give up (finally: disconnect).
ServerConnect ==
    /\ pc = "server_connect"
    /\ \E ok \in BOOLEAN, ss \in ServerSessions :
         LET c == connect_ssh(sessions, ServerDev, ok)
         IN  IF c.connection # NoConn
             THEN /\ connection' = c.connection
                  /\ connection_type' = c.connection_type
                  /\ sessions' = c.sessions
                  /\ device' = [sessions |-> ss, ifaces |-> {}]
                  /\ pc' = "server_list"
                  /\ server_success' = server_success
             ELSE LET d == disconnect(c.connection, c.sessions)
                  IN  /\ connection' = d.connection
                      /\ connection_type' = "none"
                      /\ sessions' = d.sessions
                      /\ device' = NoDevice
                      /\ server_success' = FALSE
                      /\ pc' = "clients_begin"
    /\ UNCHANGED <<Engine, Units, Inputs, Lists, idx, Counts, exit_code, ret, cmds, last, probe, tally>>

\* configure_l2tp_server, lines 146-156: list the live tunnels (logged only),
\* then start the loop over the mapping.
ServerList ==
    /\ pc = "server_list"
    /\ success_count' = 0
    /\ total_count' = 0
    /\ idx' = 1
    /\ pc' = IF tunnel_mappings = <<>> THEN "server_finally" ELSE "tunnel_lookup"
    /\ UNCHANGED <<Engine, Units, Inputs, Lists, Conn, server_success, exit_code, ret, cmds, last, probe, tally>>

\* configure_l2tp_server line 157 and configure_l2tp_server_tunnel lines 37-47:
\* the tunnel lookup.
TunnelLookup ==
    /\ pc = "tunnel_lookup"
    /\ total_count' = total_count + 1
    /\ IF ~is_connected(connection)
       THEN /\ ret' = FALSE
            /\ cmds' = cmds
            /\ last' = last
            /\ tally' = Bump("tAttempt")
            /\ pc' = "tunnel_done"
       ELSE \E tok \in BOOLEAN :
              LET out == execute_command(connection, tok, RenderL2tp(device.sessions))
                  tunnel_interface == find_l2tp_tunnel_by_name(out, Head(tunnel_mappings))
              IN  /\ cmds' = Append(cmds, "l2tp_print")
                  /\ last' = SentQuery("l2tp_print", out)
                  /\ IF tunnel_interface = <<>>
                     THEN ret' = FALSE /\ pc' = "tunnel_done" /\ tally' = Bump2("tAttempt", "tMiss")
                     ELSE ret' = ret /\ pc' = "tunnel_addr" /\ tally' = Bump("tAttempt")
    /\ UNCHANGED <<Engine, Units, Inputs, Lists, Conn, idx, success_count, server_success, exit_code, probe>>

\* Mutant of TunnelAddr: a rejected address command is sent again.
TunnelAddr_RetryOnRejection ==
    /\ pc = "tunnel_addr"
    /\ \E tok \in BOOLEAN, reply \in AddReplies :
         LET out == execute_command(connection, tok, reply)
         IN  /\ cmds' = Append(cmds, "addr_add")
             /\ last' = Sent("addr_add", out, ADDR_MARKER)
             /\ ret' = ret
             /\ pc' = IF add_step_outcome(out, ADDR_MARKER) = "Failed" /\ Len(cmds) < 2
                      THEN "tunnel_addr" ELSE "tunnel_route"
    /\ UNCHANGED <<Engine, Units, Inputs, Lists, Conn, idx, Counts, server_success, exit_code, probe, tally>>

\* configure_l2tp_server_tunnel, lines 51-63: the server address.
TunnelAddr ==
    /\ pc = "tunnel_addr"
    /\ \E tok \in BOOLEAN, reply \in AddReplies :
         LET out == execute_command(connection, tok, reply)
         IN  /\ cmds' = Append(cmds, "addr_add")
             /\ last' = Sent("addr_add", out, ADDR_MARKER)
             /\ IF add_step_outcome(out, ADDR_MARKER) = "Failed"
                THEN ret' = FALSE /\ pc' = "tunnel_done"
                ELSE ret' = ret /\ pc' = "tunnel_route"
    /\ UNCHANGED <<Engine, Units, Inputs, Lists, Conn, idx, Counts, server_success, exit_code, probe, tally>>

\* configure_l2tp_server_tunnel, lines 65-78: the route of the routed network.
TunnelRoute ==
    /\ pc = "tunnel_route"
    /\ \E tok \in BOOLEAN, reply \in AddReplies :
         LET out == execute_command(connection, tok, reply)
         IN  /\ cmds' = Append(cmds, "route_add")
             /\ last' = Sent("route_add", out, ROUTE_MARKER)
             /\ IF add_step_outcome(out, ROUTE_MARKER) = "Failed"
                THEN ret' = FALSE /\ tally' = tally
                ELSE ret' = TRUE /\ tally' = Bump("tOk")
             /\ pc' = "tunnel_done"
    /\ UNCHANGED <<Engine, Units, Inputs, Lists, Conn, idx, Counts, server_success, exit_code, probe>>

\* Mutant of TunnelNext: the loop is left at the first failed tunnel.
TunnelNext_StopOnFailure ==
    /\ pc = "tunnel_done"
    /\ success_count' = IF ret = TRUE THEN success_count + 1 ELSE success_count
    /\ idx' = idx + 1
    /\ tunnel_mappings' = IF ret = TRUE THEN Tail(tunnel_mappings) ELSE <<>>
    /\ ret' = "none"
    /\ cmds' = <<>>
    /\ last' = NoCmd
    /\ pc' = IF ret # TRUE \/ Tail(tunnel_mappings) = <<>> THEN "server_finally" ELSE "tunnel_lookup"
    /\ UNCHANGED <<Engine, Units, Inputs, client_hosts, Conn, total_count, server_success, exit_code,
                   probe, tally>>

\* configure_l2tp_server, lines 169-173 and the loop step.
TunnelNext ==
    /\ pc = "tunnel_done"
    /\ success_count' = IF ret = TRUE THEN success_count + 1 ELSE success_count
    /\ idx' = idx + 1
    /\ tunnel_mappings' = Tail(tunnel_mappings)
    /\ ret' = "none"
    /\ cmds' = <<>>
    /\ last' = NoCmd
    /\ pc' = IF Tail(tunnel_mappings) = <<>> THEN "server_finally" ELSE "tunnel_lookup"
    /\ UNCHANGED <<Engine, Units, Inputs, client_hosts, Conn, total_count, server_success, exit_code,
                   probe, tally>>

\* configure_l2tp_server, lines 175-183: the result and the finally clause.
ServerFinally ==
    /\ pc = "server_finally"
    /\ server_success' = (success_count = total_count)
    /\ Disconnected
    /\ pc' = "clients_begin"
    /\ UNCHANGED <<Engine, Units, Inputs, Lists, idx, Counts, exit_code, ret, cmds, last, probe, tally>>

\* ----------------------------------------------------- client pass
\* Replies a device gives to a ping command.
ProbeReplies ==
    { <<>>,
      <<"bytes from", "time=", "5", "ms">>,
      <<"1", "packets transmitted", "0", "received", "100%", "packet loss">>,
      <<"timeout">> }

\* _test_mtu_ipv6, line 189: whether a probe counts as answered.
mtu_responded(output) ==
    Truthy(output) /\ (Contains(output, <<"time=">>) \/ Contains(output, <<"received">>))

\* configure_l2tp_clients, lines 189-192.
ClientsBegin ==
    /\ pc = "clients_begin"
    /\ success_count' = 0
    /\ total_count' = Len(client_hosts)
    /\ idx' = 1
    /\ pc' = "client_next"
    /\ UNCHANGED <<Engine, Units, Inputs, Lists, Conn, server_success, exit_code, ret, cmds, last, probe, tally>>

\* Mutant of ClientNext: a host without a mapping is counted as configured.
ClientNext_CountUnmapped ==
    /\ pc = "client_next"
    /\ IF client_hosts = <<>>
       THEN pc' = "report" /\ idx' = idx /\ tally' = tally /\ client_hosts' = client_hosts
            /\ success_count' = success_count
       ELSE IF Head(client_hosts).hostname \notin client_mappings
       THEN /\ pc' = "client_next"
            /\ idx' = idx + 1
            /\ client_hosts' = Tail(client_hosts)
            /\ tally' = Bump2("hVisited", "hSkip")
            /\ success_count' = success_count + 1
       ELSE /\ pc' = "client_connect"
            /\ idx' = idx
            /\ client_hosts' = client_hosts
            /\ tally' = Bump("hVisited")
            /\ success_count' = success_count
    /\ UNCHANGED <<Engine, Units, Inputs, tunnel_mappings, Conn, total_count, server_success,
                   exit_code, ret, cmds, last, probe>>

\* configure_l2tp_clients, lines 194-203: the loop head and the mapping check
\* (a host without a mapping is skipped); line 238 when the inventory is
\* exhausted.
ClientNext ==
    /\ pc = "client_next"
    /\ IF client_hosts = <<>>
       THEN pc' = "report" /\ idx' = idx /\ tally' = tally /\ client_hosts' = client_hosts
       ELSE IF Head(client_hosts).hostname \notin client_mappings
       THEN /\ pc' = "client_next"
            /\ idx' = idx + 1
            /\ client_hosts' = Tail(client_hosts)
            /\ tally' = Bump2("hVisited", "hSkip")
       ELSE /\ pc' = "client_connect"
            /\ idx' = idx
            /\ client_hosts' = client_hosts
            /\ tally' = Bump("hVisited")
    /\ UNCHANGED <<Engine, Units, Inputs, tunnel_mappings, Conn, Counts, server_success, exit_code, ret,
                   cmds, last, probe>>

\* configure_l2tp_clients, lines 203-214: a fresh connection object, the
\* connect by the host's method, and on failure the finally clause and the
\* next host.
ClientConnect ==
    /\ pc = "client_connect"
    /\ \E ok \in BOOLEAN, ifs \in ClientIfaces :
         LET c == IF Lower(Head(client_hosts).method) = <<"ssh">>
                  THEN connect_ssh(sessions, idx, ok)
                  ELSE connect_telnet(sessions, idx, ok)
         IN  IF c.connection # NoConn
             THEN /\ connection' = c.connection
                  /\ connection_type' = c.connection_type
                  /\ sessions' = c.sessions
                  /\ device' = [sessions |-> <<>>, ifaces |-> ifs]
                  /\ pc' = "client_iface"
                  /\ idx' = idx
                  /\ client_hosts' = client_hosts
             ELSE LET d == disconnect(c.connection, c.sessions)
                  IN  /\ connection' = d.connection
                      /\ connection_type' = "none"
                      /\ sessions' = d.sessions
                      /\ device' = NoDevice
                      /\ pc' = "client_next"
                      /\ idx' = idx + 1
                      /\ client_hosts' = Tail(client_hosts)
    /\ UNCHANGED <<Engine, Units, Inputs, tunnel_mappings, Counts, server_success, exit_code, ret, cmds,
                   last, probe, tally>>

\* configure_l2tp_client, lines 97-103: the target interface must exist.
ClientIface ==
    /\ pc = "client_iface"
    /\ IF ~is_connected(connection)
       THEN ret' = FALSE /\ cmds' = cmds /\ last' = last /\ pc' = "client_done"
       ELSE \E tok \in BOOLEAN :
              LET out == execute_command(connection, tok, RenderIfacePrint(device.ifaces, BridgeName))
              IN  /\ cmds' = Append(cmds, "iface_print")
                  /\ last' = SentQuery("iface_print", out)
                  /\ pc' = IF interface_exists(out, BridgeName) THEN "client_addr" ELSE "client_bridges"
                  /\ ret' = ret
    /\ UNCHANGED <<Engine, Units, Inputs, Lists, Conn, idx, Counts, server_success, exit_code, probe, tally>>

\* configure_l2tp_client, lines 104-108: list the bridges (logged) and fail.
ClientBridges ==
    /\ pc = "client_bridges"
    /\ cmds' = Append(cmds, "bridge_print")
    /\ last' = [c |-> "bridge_print", r |-> "-"]
    /\ ret' = FALSE
    /\ pc' = "client_done"
    /\ UNCHANGED <<Engine, Units, Inputs, Lists, Conn, idx, Counts, server_success, exit_code, probe, tally>>

\* configure_l2tp_client, lines 110-123: the bridge address.
ClientAddr ==
    /\ pc = "client_addr"
    /\ \E tok \in BOOLEAN, reply \in AddReplies :
         LET out == execute_command(connection, tok, reply)
             o == add_step_outcome(out, ADDR_MARKER)
         IN  /\ cmds' = Append(cmds, "addr_add")
             /\ last' = Sent("addr_add", out, ADDR_MARKER)
             /\ IF o = "Failed"
                THEN ret' = FALSE /\ pc' = "client_done"
                ELSE /\ ret' = ret
                     /\ pc' = IF o = "Skipped" THEN "client_route" ELSE "client_addr_verify"
    /\ UNCHANGED <<Engine, Units, Inputs, Lists, Conn, idx, Counts, server_success, exit_code, probe, tally>>

\* configure_l2tp_client, lines 124-131: best-effort confirmation (logged only).
ClientAddrVerify ==
    /\ pc = "client_addr_verify"
    /\ cmds' = Append(cmds, "addr_print")
    /\ last' = [c |-> "addr_print", r |-> "-"]
    /\ pc' = "client_route"
    /\ UNCHANGED <<Engine, Units, Inputs, Lists, Conn, idx, Counts, server_success, exit_code, ret, probe, tally>>

\* configure_l2tp_client, lines 133-146: the default route.
ClientRoute ==
    /\ pc = "client_route"
    /\ \E tok \in BOOLEAN, reply \in AddReplies :
         LET out == execute_command(connection, tok, reply)
             o == add_step_outcome(out, ROUTE_MARKER)
         IN  /\ cmds' = Append(cmds, "route_add")
             /\ last' = Sent("route_add", out, ROUTE_MARKER)
             /\ IF o = "Failed"
                THEN ret' = FALSE /\ pc' = "client_done" /\ probe' = probe
                ELSE /\ ret' = ret
                     /\ probe' = 1
                     /\ pc' = IF o = "Skipped" THEN "client_ping" ELSE "client_route_verify"
    /\ UNCHANGED <<Engine, Units, Inputs, Lists, Conn, idx, Counts, server_success, exit_code, tally>>

\* configure_l2tp_client, lines 147-154: best-effort confirmation (logged only).
ClientRouteVerify ==
    /\ pc = "client_route_verify"
    /\ cmds' = Append(cmds, "route_print")
    /\ last' = [c |-> "route_print", r |-> "-"]
    /\ pc' = "client_ping"
    /\ UNCHANGED <<Engine, Units, Inputs, Lists, Conn, idx, Counts, server_success, exit_code, ret, probe, tally>>

\* _generate_connectivity_summary, line 221: mtu_ok
mtu_adequate(max_mtu) == max_mtu >= 1280

\* What the Connectivity Verifier may find.
VerifierFindings == {"ok", "problems", "raised"}

\* Mutant of client_result_after_tests: the verifier's finding decides.
client_result_follows_verifier(finding) == finding = "ok"

\* configure_l2tp_client, lines 156-159, with _test_connectivity_after_config,
\* lines 266-281: the report of the verifier is dropped, an exception inside
\* it is caught and logged, and the client's result is True.
client_result_after_tests(finding) == TRUE

\* _test_connectivity_after_config -> test_ipv6_connectivity, lines 32-55:
\* one ping to the gateway, then one per external target (results are logged).
ClientPing ==
    /\ pc = "client_ping"
    /\ IF ~is_connected(connection)
       THEN /\ cmds' = cmds
            /\ last' = last
            /\ probe' = 0
            /\ ret' = client_result_after_tests("problems")
            /\ pc' = "client_done"
            /\ tally' = Bump("hOk")
       ELSE /\ cmds' = Append(cmds, "ping")
            /\ last' = [c |-> "ping", r |-> "-"]
            /\ probe' = IF probe = NumPingTargets THEN 1 ELSE probe + 1
            /\ pc' = IF probe = NumPingTargets THEN "client_mtu" ELSE "client_ping"
            /\ ret' = ret
            /\ tally' = tally
    /\ UNCHANGED <<Engine, Units, Inputs, Lists, Conn, idx, Counts, server_success, exit_code>>

\* _test_mtu_ipv6, lines 183-198: one probe of the ascending scan; the scan
\* ends at the first size without an answer or after the last size, and
\* configure_l2tp_client then returns True (line 159).
ClientMtu ==
    /\ pc = "client_mtu"
    /\ \E tok \in BOOLEAN, reply \in ProbeReplies :
         LET out == execute_command(connection, tok, reply)
             more == mtu_responded(out) /\ probe < Len(mtu_sizes)
             max_working_mtu == IF mtu_responded(out) THEN mtu_sizes[probe]
                                ELSE IF probe > 1 THEN mtu_sizes[probe - 1] ELSE 0
         IN  \E finding \in (IF more THEN {"problems"} ELSE VerifierFindings) :
             /\ finding = "ok" => mtu_adequate(max_working_mtu)
             /\ cmds' = Append(cmds, "mtu_ping")
             /\ last' = [c |-> "mtu_ping",
                         r |-> IF mtu_responded(out) THEN "answered" ELSE "unanswered"]
             /\ probe' = IF more THEN probe + 1 ELSE 0
             /\ pc' = IF more THEN "client_mtu" ELSE "client_done"
             /\ ret' = IF more THEN ret ELSE client_result_after_tests(finding)
             /\ tally' = IF more THEN tally ELSE Bump("hOk")
    /\ UNCHANGED <<Engine, Units, Inputs, Lists, Conn, idx, Counts, server_success, exit_code>>

\* Mutant of ClientDone: the loop is left at the first failed client.
ClientDone_StopOnFailure ==
    /\ pc = "client_done"
    /\ success_count' = IF ret = TRUE THEN success_count + 1 ELSE success_count
    /\ Disconnected
    /\ idx' = idx + 1
    /\ client_hosts' = Tail(client_hosts)
    /\ ret' = "none"
    /\ cmds' = <<>>
    /\ last' = NoCmd
    /\ pc' = IF ret = TRUE THEN "client_next" ELSE "report"
    /\ UNCHANGED <<Engine, Units, Inputs, tunnel_mappings, total_count, server_success, exit_code, probe, tally>>

\* configure_l2tp_clients, lines 225-235: count the item, close the session
\* (finally), go to the next host.
ClientDone ==
    /\ pc = "client_done"
    /\ success_count' = IF ret = TRUE THEN success_count + 1 ELSE success_count
    /\ Disconnected
    /\ idx' = idx + 1
    /\ client_hosts' = Tail(client_hosts)
    /\ ret' = "none"
    /\ cmds' = <<>>
    /\ last' = NoCmd
    /\ pc' = "client_next"
    /\ UNCHANGED <<Engine, Units, Inputs, tunnel_mappings, total_count, server_success, exit_code, probe, tally>>

Next ==
    \/ MainStart
    \/ ServerConnect
    \/ ServerList
    \/ TunnelLookup
    \/ TunnelAddr
    \/ TunnelRoute
    \/ TunnelNext
    \/ ServerFinally
    \/ ClientsBegin
    \/ ClientNext
    \/ ClientConnect
    \/ ClientIface
    \/ ClientBridges
    \/ ClientAddr
    \/ ClientAddrVerify
    \/ ClientRoute
    \/ ClientRouteVerify
    \/ ClientPing
    \/ ClientMtu
    \/ ClientDone
    \/ MainReport

Spec == Init /\ [][Next]_vars

\* ============================================================ claims (run)
ItemDone == pc \in {"tunnel_done", "client_done"}
IsAdd(c) == c \in {"addr_add", "route_add"}
IsProbe(c) == c \in {"ping", "mtu_ping"}

\* C1: the process exits with code 0 only if the server pass succeeded for
\* every mapped tunnel and every host of the inventory was configured
\* successfully; every other run (no credentials, a missing or empty tunnel
\* mapping, client mapping or inventory, any failed item) exits with code 1.
C1_ExitCode ==
    pc = "exited" =>
        /\ exit_code \in {0, 1}
        /\ exit_code = 0 <=>
            /\ creds
            /\ n_tunnels > 0
            /\ client_mappings # {}
            /\ n_hosts > 0
            /\ tally.tOk = n_tunnels
            /\ tally.hOk = n_hosts

\* C1 witness: a run over two tunnels and two hosts that exits with code 0.
C1_Witness ==
    pc = "exited" /\ exit_code = 0 /\ n_tunnels = 2 /\ n_hosts = 2 /\ tally.hOk = 2

\* C5: a command of a pass that gets no reply (timeout or transport error)
\* during the address-add or route-add step makes the item Failed.
C5_AbsentReplyFails ==
    (ItemDone /\ IsAdd(last.c) /\ last.r = "absent") => ret = FALSE

\* C6: the server pass over N mapped tunnels of which M miss the lookup and
\* the others succeed calls the manager for all N, counts N - M successes and
\* reports success exactly when M = 0.
C6_ServerBatch ==
    (pc = "clients_begin" /\ tally.tAttempt > 0) =>
        /\ tally.tAttempt = n_tunnels
        /\ total_count = n_tunnels
        /\ tunnel_mappings = <<>>
        /\ (tally.tOk = n_tunnels - tally.tMiss) =>
              /\ success_count = n_tunnels - tally.tMiss
              /\ server_success <=> (tally.tMiss = 0)

\* C6 witness: two tunnels, the lookup of one missed, the other succeeded.
C6_Witness ==
    /\ pc = "clients_begin"
    /\ n_tunnels = 2
    /\ tally.tAttempt = 2
    /\ tally.tMiss = 1
    /\ tally.tOk = 1
    /\ success_count = 1
    /\ ~server_success

\* C7: a client that fails (connect failure or failed configuration) is not
\* counted as a success and does not stop the pass: every host of the
\* inventory is visited, and the successes counted are exactly the
\* configurations that returned True.
C7_ClientBatch ==
    /\ (pc \in {"client_next", "client_connect", "client_done", "report"}) =>
          /\ success_count <= tally.hOk
          /\ tally.hOk <= success_count + (IF pc = "client_done" /\ ret = TRUE THEN 1 ELSE 0)
    /\ (pc = "client_done" /\ ret = FALSE) => success_count = tally.hOk
    /\ pc = "report" =>
          /\ client_hosts = <<>>
          /\ tally.hVisited = n_hosts
          /\ total_count = n_hosts
          /\ success_count = tally.hOk

\* C7 witness: the first client failed, the second one is configured all the same.
C7_Witness ==
    pc = "client_done" /\ ret = TRUE /\ idx = 2 /\ success_count = 0 /\ tally.hVisited = 2

LiveMatch(name) ==
    \E i \in 1..Len(device.sessions) : Contains(Lower(device.sessions[i]), Lower(name))

NoAdds == \A i \in 1..Len(cmds) : ~IsAdd(cmds[i])

C10_StepOrder ==
    /\ \A i, j \in 1..Len(cmds) :
          /\ (cmds[i] = "addr_add" /\ cmds[j] = "route_add") => i < j
          /\ (IsAdd(cmds[i]) /\ IsProbe(cmds[j])) => i < j
          /\ (cmds[i] = "addr_add" /\ cmds[j] = "addr_add") => i = j
    /\ \A j \in 1..Len(cmds) :
          /\ cmds[j] = "route_add" => \E i \in 1..(j - 1) : cmds[i] = "addr_add"
          /\ IsProbe(cmds[j]) => \E i \in 1..(j - 1) : cmds[i] = "route_add"
    /\ (IsAdd(last.c) /\ last.r = "rejected") =>
          /\ ItemDone
          /\ ret = FALSE
          /\ cmds[Len(cmds)] = last.c
          /\ \A i \in 1..Len(cmds) : ~IsProbe(cmds[i])
          /\ last.c = "addr_add" => \A i \in 1..Len(cmds) : cmds[i] # "route_add"

\* C10 witness: a client whose route add was rejected after its address add.
C10_Witness ==
    /\ pc = "client_done"
    /\ last = [c |-> "route_add", r |-> "rejected"]
    /\ \E i \in 1..Len(cmds) : cmds[i] = "addr_add"

\* C11: a client whose target interface exists (so that the address step was
\* reached) and whose add steps were not rejected ends with result True,
\* whatever the Connectivity Verifier found: unreachable targets, an
\* inadequate MTU or an exception inside the verifier.
C11_VerifierNonBlocking ==
    (/\ pc = "client_done"
     /\ \E i \in 1..Len(cmds) : cmds[i] = "addr_add"
     /\ ~(IsAdd(last.c) /\ last.r = "rejected"))
    => ret = TRUE

\* The first MTU probe (the command after the last ping) got no answer: the
\* verifier reports an inadequate MTU, the client still succeeded.
C11_Witness ==
    /\ pc = "client_done"
    /\ ret = TRUE
    /\ last = [c |-> "mtu_ping", r |-> "unanswered"]
    /\ Len(cmds) > 1 /\ cmds[Len(cmds) - 1] = "ping"

\* ================================================ IPv6 addresses and routes
\* MikrotikIPv6Config and MikrotikRoutes, called directly against one device.
\* A listing is text: lines separated by NL, words separated by SP.
SP == " "

Digits == <<"0", "1", "2", "3", "4", "5", "6", "7", "8", "9">>

\* str.strip()
RECURSIVE Strip(_)
Strip(line) ==
    IF line = <<>> THEN line
    ELSE IF Head(line) = SP THEN Strip(Tail(line))
    ELSE IF line[Len(line)] = SP THEN Strip(SubSeq(line, 1, Len(line) - 1))
    ELSE line

\* str.split() without a separator: the words, no empty ones.
Words(line) == SelectSeq(SplitOn(line, SP), LAMBDA w : w # <<>>)

\* re.match(r'^\s*\d+', line)
starts_with_number(line) ==
    LET s == Strip(line)
    IN  s # <<>> /\ \E d \in 1..Len(Digits) : s[1] = Digits[d]

\* re.search(key + r'([^\s]+)', line).group(1) for a key that is one atom:
\* the leftmost occurrence of the key that a non-blank follows, and the text
\* from there to the next blank.  <<>> stands for "no match".
regex_value(line, key) ==
    LET hits == {i \in 1..(Len(line) - 1) : line[i] = key /\ line[i + 1] # SP}
    IN  IF hits = {} THEN <<>>
        ELSE LET i == CHOOSE h \in hits : \A g \in hits : h <= g
                 j == FindAtom(line, SP, i + 1)
             IN  SubSeq(line, i + 1, IF j = 0 THEN Len(line) ELSE j - 1)

\* The loop of _parse_ipv6_addresses over the remaining lines.  current_entry
\* is <<>> for the empty dict, <<entry>> otherwise.  raised: parts[2..4] of a
\* numbered line with two to four words is an IndexError.
RECURSIVE parse_ipv6_addresses_loop(_, _, _)
parse_ipv6_addresses_loop(lines, addresses, current_entry) ==
    IF lines = <<>> THEN [raised |-> FALSE, addresses |-> addresses]
    ELSE LET line == Strip(Head(lines))
             rest == Tail(lines)
         IN  IF \/ line = <<>>
                \/ Contains(line, <<"Flags:">>)
                \/ Contains(line, <<"#">>) /\ Contains(line, <<"ADDRESS">>)
             THEN parse_ipv6_addresses_loop(rest, addresses, current_entry)
             ELSE IF starts_with_number(line)
             THEN LET saved == IF current_entry # <<>> THEN addresses \o current_entry
                               ELSE addresses
                      parts == Words(line)
                  IN  IF Len(parts) > 1
                      THEN IF Len(parts) < 5
                           THEN [raised |-> TRUE, addresses |-> <<>>]
                           ELSE parse_ipv6_addresses_loop(rest, saved,
                                    << [id |-> parts[1],
                                        flags |-> parts[2],
                                        address |-> parts[3],
                                        interface |-> parts[4],
                                        advertise |-> (parts[5] = <<"yes">>),
                                        comment |-> IF Len(parts) > 5 THEN parts[6]
                                                    ELSE None] >>)
                      ELSE parse_ipv6_addresses_loop(rest, saved, <<>>)
             ELSE parse_ipv6_addresses_loop(rest, addresses, current_entry)

\* MikrotikIPv6Config._parse_ipv6_addresses
parse_ipv6_addresses(output) ==
    parse_ipv6_addresses_loop(SplitOn(output, NL), <<>>, <<>>)

\* MikrotikIPv6Config.list_ipv6_addresses, given the reply to the print
\* command: [] without a reply and when the parser raises.
list_ipv6_addresses(output) ==
    IF ~Truthy(output) THEN <<>>
    ELSE LET parsed == parse_ipv6_addresses(output)
         IN  IF parsed.raised THEN <<>> ELSE parsed.addresses

\* address.split('/')[0]
host_part(address) == SplitOn(address, "/")[1]

\* MikrotikIPv6Config._address_exists, given the reply to the print command.
address_exists(output, address) ==
    LET addresses == list_ipv6_addresses(output)
    IN  \E i \in 1..Len(addresses) : host_part(addresses[i].address) = host_part(address)

\* The loop of _parse_ipv6_routes over the remaining lines; the list it
\* returns (the last route is appended after the loop).  The 'comment' field
\* is left out: no listing of the model carries one.
RECURSIVE parse_ipv6_routes_loop(_, _, _)
parse_ipv6_routes_loop(lines, routes, current_route) ==
    IF lines = <<>>
    THEN IF current_route # <<>> THEN routes \o current_route ELSE routes
    ELSE LET line == Strip(Head(lines))
             rest == Tail(lines)
             dst == regex_value(line, "dst-address=")
             gw == regex_value(line, "gateway=")
             dist == regex_value(line, "distance=")
         IN  IF line = <<>> \/ Contains(line, <<"Flags:">>)
             THEN parse_ipv6_routes_loop(rest, routes, current_route)
             ELSE IF starts_with_number(line)
             THEN parse_ipv6_routes_loop(rest,
                      IF current_route # <<>> THEN routes \o current_route ELSE routes,
                      << [id |-> Words(line)[1],
                          dst_address |-> dst,
                          gateway |-> gw,
                          distance |-> dist] >>)
             ELSE IF current_route # <<>>
             THEN parse_ipv6_routes_loop(rest, routes,
                      << [current_route[1] EXCEPT
                            !.dst_address = IF dst # <<>> THEN dst ELSE @,
                            !.gateway = IF gw # <<>> THEN gw ELSE @] >>)
             ELSE parse_ipv6_routes_loop(rest, routes, current_route)

\* MikrotikRoutes._parse_ipv6_routes
parse_ipv6_routes(output) ==
    parse_ipv6_routes_loop(SplitOn(output, NL), <<>>, <<>>)

\* MikrotikRoutes.list_ipv6_routes, given the reply to the print command.
list_ipv6_routes(output) ==
    IF ~Truthy(output) THEN <<>> ELSE parse_ipv6_routes(output)

\* MikrotikRoutes._route_exists, given the reply to the print command.
route_exists(output, dst_address, gateway) ==
    LET routes == list_ipv6_routes(output)
    IN  \E i \in 1..Len(routes) :
            routes[i].dst_address = dst_address /\ routes[i].gateway = gateway

\* add_ipv6_address and add_ipv6_route, after the add command: False when
\* the reply holds "syntax error" or "failure", True otherwise.
add_succeeded(output) ==
    ~(Truthy(output) /\ (\/ Contains(Lower(output), <<"syntax error">>)
                         \/ Contains(Lower(output), <<"failure">>)))

\* ----------------------------------------------- the device's side
Ifaces == {"l2tp-x", "ether1"}
HostParts == {"2804::11", "2804::12"}
PrefixLens == {"126", "64"}
Dsts == {"2804::14/126", "2804::18/126"}
Gateways == {"2804::12", "2804::16"}

\* The calls ask for one host part and one gateway; the device's tables range
\* over both (the names are interchangeable).
WantedHost == "2804::11"
WantedGateway == "2804::12"

AddressEntries == [host : HostParts, plen : {"126"}, iface : Ifaces]
RouteEntries == [dst : Dsts, gw : Gateways, check_gateway : BOOLEAN]

\* Reply to "/ipv6 address print where interface=X": the flags legend, the
\* column header, one numbered line per address of the interface.
AddressFlags == <<"Flags:", SP, "G", SP, "-", SP, "global">>
AddressHeader == <<SP, "#", SP, SP, "ADDRESS", SP, "INTERFACE", SP, "ADVERTISE">>
AddressLine(n, e) ==
    <<SP, Digits[n + 1], SP, SP, "G", SP, e.host, "/", e.plen, SP, e.iface, SP, "no">>

render_address_print(table, interface) ==
    LET shown == SelectSeq(table, LAMBDA e : e.iface = interface)
    IN  JoinLines(<<AddressFlags, AddressHeader>>
                  \o [i \in 1..Len(shown) |-> AddressLine(i - 1, shown[i])])

\* Reply to "/ipv6 route print".  A device shows a route in one of three
\* forms: as properties on one line, as properties wrapped onto a second
\* line, or as a row of a table under a column header.
RouteForms == {"oneline", "wrapped", "table"}
RouteFlags == <<"Flags:", SP, "A", SP, "-", SP, "active">>
RouteHeader == <<SP, "#", SP, SP, "DST-ADDRESS", SP, "GATEWAY", SP, "DISTANCE">>
RouteHead(n, e) ==
    <<SP, Digits[n + 1], SP, "A", SP, "S", SP, "dst-address=", e.dst, SP, "gateway=", e.gw>>
RouteRest(e) ==
    (IF e.check_gateway THEN <<"check-", "gateway=", "ping", SP>> ELSE <<>>)
    \o <<"distance=", "1">>
RouteLines(n, e, form) ==
    IF form = "oneline" THEN << RouteHead(n, e) \o <<SP>> \o RouteRest(e) >>
    ELSE IF form = "wrapped" THEN << RouteHead(n, e), <<SP, SP, SP>> \o RouteRest(e) >>
    ELSE << <<SP, Digits[n + 1], SP, "A", SP, "S", SP, e.dst, SP, e.gw, SP, "1">> >>

RECURSIVE RouteBody(_, _, _)
RouteBody(table, n, form) ==
    IF table = <<>> THEN <<>>
    ELSE RouteLines(n, Head(table), form) \o RouteBody(Tail(table), n + 1, form)

render_route_print(table, form) ==
    JoinLines(<<RouteFlags>> \o (IF form = "table" THEN <<RouteHeader>> ELSE <<>>)
              \o RouteBody(table, 0, form))

\* What becomes of a command: it and its reply get through, the command is
\* lost, or the device runs it and the reply is lost (both time out).
Transports == {"ok", "command lost", "reply lost"}

HasAddress(table, interface, host) ==
    \E i \in 1..Len(table) : table[i].iface = interface /\ table[i].host = host

HasRoute(table, dst, gw) ==
    \E i \in 1..Len(table) : table[i].dst = dst /\ table[i].gw = gw

\* The device's answer to "/ipv6 address add": the address is already on the
\* interface, or the device takes it, or it refuses for another reason.
device_address_add(table, interface, host, plen, accept) ==
    IF HasAddress(table, interface, host)
    THEN [table |-> table, text |-> <<"failure", ":", SP, "already have such address">>]
    ELSE IF accept
    THEN [table |-> Append(table, [host |-> host, plen |-> plen, iface |-> interface]),
          text |-> <<>>]
    ELSE [table |-> table, text |-> <<"failure", ":", SP, "x">>]

\* The device's answer to "/ipv6 route add ... check-gateway=ping".
device_route_add(table, dst, gw, accept) ==
    IF accept
    THEN [table |-> Append(table, [dst |-> dst, gw |-> gw, check_gateway |-> TRUE]),
          text |-> <<>>]
    ELSE IF HasRoute(table, dst, gw)
    THEN [table |-> table, text |-> <<"failure", ":", SP, "already have such route">>]
    ELSE [table |-> table, text |-> <<"failure", ":", SP, "x">>]

\* ------------------------------------------------------- the calls
CallSummary == IF call = NoCall THEN NoPrev
               ELSE [call |-> call, reply |-> add_reply, result |-> result]

Batch == <<pc, creds, tunnel_mappings, client_mappings, client_hosts, n_tunnels, n_hosts,
           connection, connection_type, sessions, device, idx, success_count, total_count,
           server_success, exit_code, ret, cmds, last, probe, tally>>

\* A run drives one of the two classes against a device: they share nothing
\* but the connection, and neither reads the table the other writes.
InitEngine ==
    /\ pc \in {"ipv6_config", "routes"}
    /\ creds = TRUE
    /\ tunnel_mappings = <<>>
    /\ client_mappings = {}
    /\ client_hosts = <<>>
    /\ n_tunnels = 0
    /\ n_hosts = 0
    /\ connection \in {NoConn, ServerDev}
    /\ connection_type = (IF connection = NoConn THEN "none" ELSE "ssh")
    /\ sessions = (IF connection = NoConn THEN {} ELSE {connection})
    /\ device = NoDevice
    /\ idx = 0
    /\ success_count = 0
    /\ total_count = 0
    /\ server_success = FALSE
    /\ exit_code = -1
    /\ ret = "none"
    /\ cmds = <<>>
    /\ last = NoCmd
    /\ probe = 0
    /\ tally = ZeroTally
    /\ step = "idle"
    /\ dev_addresses \in IF pc = "ipv6_config"
                          THEN {q \in SeqsUpTo(AddressEntries, MaxAddresses) : Distinct(q)}
                          ELSE {<<>>}
    /\ dev_routes \in IF pc = "routes" THEN SeqsUpTo(RouteEntries, MaxRoutes) ELSE {<<>>}
    /\ call = NoCall
    /\ listing = Unsent
    /\ add_reply = Unsent
    /\ result = FALSE
    /\ prev = NoPrev
    /\ ncalls = 0
    /\ UnitsOff

\* add_ipv6_address, lines 33-41: not connected, or list the addresses of
\* the interface and return True when the host part is among them.
AddAddressCheck ==
    /\ pc = "ipv6_config" /\ step = "idle" /\ ncalls < MaxCalls
    /\ \E interface \in Ifaces, plen \in PrefixLens, transport \in Transports :
         LET address == <<WantedHost, "/", plen>>
             output == execute_command(connection, transport = "ok",
                                       render_address_print(dev_addresses, interface))
         IN  /\ call' = [f |-> "add_ipv6_address", interface |-> <<interface>>,
                         address |-> address, dst_address |-> <<>>, gateway |-> <<>>]
             /\ IF ~is_connected(connection)
                THEN listing' = Unsent /\ result' = FALSE /\ step' = "idle"
                ELSE /\ listing' = output
                     /\ IF address_exists(output, address)
                        THEN result' = TRUE /\ step' = "idle"
                        ELSE result' = result /\ step' = "address_add"
    /\ add_reply' = Unsent
    /\ prev' = CallSummary
    /\ ncalls' = ncalls + 1
    /\ UNCHANGED <<Batch, Units, dev_addresses, dev_routes>>

\* add_ipv6_address, lines 43-59: send the add command and judge its reply.
AddAddressAdd ==
    /\ pc = "ipv6_config" /\ step = "address_add"
    /\ \E transport \in Transports, accept \in BOOLEAN :
         LET d == device_address_add(dev_addresses, call.interface[1], call.address[1],
                                     call.address[3], accept)
             output == execute_command(connection, transport = "ok", d.text)
         IN  /\ dev_addresses' = IF transport = "command lost" THEN dev_addresses ELSE d.table
             /\ add_reply' = output
             /\ result' = add_succeeded(output)
    /\ step' = "idle"
    /\ UNCHANGED <<Batch, Units, dev_routes, call, listing, prev, ncalls>>

\* add_ipv6_route, lines 35-43: not connected, or list all routes and return
\* True when one has the destination and the gateway.
AddRouteCheck ==
    /\ pc = "routes" /\ step = "idle" /\ ncalls < MaxCalls
    /\ \E dst \in Dsts, transport \in Transports, form \in RouteForms :
         LET gw == WantedGateway
             output == execute_command(connection, transport = "ok",
                                       render_route_print(dev_routes, form))
         IN  /\ call' = [f |-> "add_ipv6_route", interface |-> <<>>, address |-> <<>>,
                         dst_address |-> <<dst>>, gateway |-> <<gw>>]
             /\ IF ~is_connected(connection)
                THEN listing' = Unsent /\ result' = FALSE /\ step' = "idle"
                ELSE /\ listing' = output
                     /\ IF route_exists(output, <<dst>>, <<gw>>)
                        THEN result' = TRUE /\ step' = "idle"
                        ELSE result' = result /\ step' = "route_add"
    /\ add_reply' = Unsent
    /\ prev' = CallSummary
    /\ ncalls' = ncalls + 1
    /\ UNCHANGED <<Batch, Units, dev_addresses, dev_routes>>

\* add_ipv6_route, lines 45-63: send the add command (check-gateway=ping by
\* default) and judge its reply.
AddRouteAdd ==
    /\ pc = "routes" /\ step = "route_add"
    /\ \E transport \in Transports, accept \in BOOLEAN :
         LET d == device_route_add(dev_routes, call.dst_address[1], call.gateway[1], accept)
             output == execute_command(connection, transport = "ok", d.text)
         IN  /\ dev_routes' = IF transport = "command lost" THEN dev_routes ELSE d.table
             /\ add_reply' = output
             /\ result' = add_succeeded(output)
    /\ step' = "idle"
    /\ UNCHANGED <<Batch, Units, dev_addresses, call, listing, prev, ncalls>>

NextEngine ==
    \/ AddAddressCheck
    \/ AddAddressAdd
    \/ AddRouteCheck
    \/ AddRouteAdd

SpecEngine == InitEngine /\ [][NextEngine]_vars

\* ==================================================== claims (direct calls)
Returned(f) == pc \in {"ipv6_config", "routes"} /\ step = "idle" /\ call.f = f

\* The call returned True without sending an add command.
Skipped == result = TRUE /\ add_reply = Unsent

\* C2: when add_ipv6_address(interface, address) returns and the listing the
\* device gave for that interface shows an address with the same host part
\* (in any position of the listing, with any prefix length), the call
\* returned True and sent no "/ipv6 address add" command.
C2_ExistingAddressSkipped ==
    (/\ Returned("add_ipv6_address")
     /\ listing # Unsent /\ listing # None
     /\ Contains(listing, <<SP, call.address[1], "/">>))
    => Skipped

\* C3: when add_ipv6_route(dst, gateway) returns, the call before it was
\* add_ipv6_route with the same arguments whose add command the device
\* accepted, and the device answered the listing of this call, then this
\* call returned True and sent no second "/ipv6 route add" command.
C3_SecondRouteAddSkipped ==
    (/\ Returned("add_ipv6_route")
     /\ prev.call = call
     /\ prev.reply = <<>> /\ prev.result = TRUE
     /\ listing # Unsent /\ listing # None)
    => Skipped

\* C4: when add_ipv6_address or add_ipv6_route returns after an add command
\* whose reply carries the idempotent-conflict marker ("already have such
\* address", "already have such route"), it returned True, also when the
\* reply holds the word "failure".
C4_ConflictIsSuccess ==
    (/\ Returned("add_ipv6_address") \/ Returned("add_ipv6_route")
     /\ add_reply # Unsent /\ add_reply # None
     /\ \/ Contains(Lower(add_reply), ADDR_MARKER)
        \/ Contains(Lower(add_reply), ROUTE_MARKER))
    => result = TRUE

\* ================================================== functions on their own
\* A run applies one function of the modules once, to an input drawn from a
\* bounded set, and keeps what it returned.
InitUnits ==
    /\ pc = "units"
    /\ creds = TRUE
    /\ tunnel_mappings = <<>>
    /\ client_mappings = {}
    /\ client_hosts = <<>>
    /\ n_tunnels = 0
    /\ n_hosts = 0
    /\ connection \in {NoConn, ServerDev}
    /\ connection_type = (IF connection = NoConn THEN "none" ELSE "ssh")
    /\ sessions = (IF connection = NoConn THEN {} ELSE {connection})
    /\ device = NoDevice
    /\ idx = 0
    /\ success_count = 0
    /\ total_count = 0
    /\ server_success = FALSE
    /\ exit_code = -1
    /\ ret = "none"
    /\ cmds = <<>>
    /\ last = NoCmd
    /\ probe = 0
    /\ tally = ZeroTally
    /\ step = "off"
    /\ dev_addresses = <<>>
    /\ dev_routes = <<>>
    /\ call = NoCall
    /\ listing = Unsent
    /\ add_reply = Unsent
    /\ result = FALSE
    /\ prev = NoPrev
    /\ ncalls = 0
    /\ UnitsOff

\* No function has been applied yet.
Idle == pc = "units" /\ unit = "-"

Applied(u, x, y) ==
    /\ pc = "units"
    /\ unit = "-"
    /\ unit' = u
    /\ given' = x
    /\ got' = y
    /\ UNCHANGED <<Batch, Engine>>

\* ------------------------------------------------------------ MTU probe
\* The loop of _test_mtu_ipv6, lines 183-198, from the i-th size on, given
\* the replies the probes get (execute_command returns None on a transport
\* error; it does not raise): max_working_mtu and the number of probes sent.
RECURSIVE mtu_scan(_, _, _)
mtu_scan(replies, i, max_working_mtu) ==
    IF i > Len(mtu_sizes) THEN [max_working_mtu |-> max_working_mtu, sent |-> i - 1]
    ELSE IF mtu_responded(replies[i]) THEN mtu_scan(replies, i + 1, mtu_sizes[i])
    ELSE [max_working_mtu |-> max_working_mtu, sent |-> i]

\* list.index
index(seq, x) == CHOOSE i \in 1..Len(seq) : seq[i] = x /\ \A j \in 1..(i - 1) : seq[j] # x

\* Mutant of recommended_mtu: 20 is taken off whatever the maximum is.
recommended_mtu_unfloored(max_working_mtu) == max_working_mtu - 20

\* _test_mtu_ipv6, line 202: 'recommended_mtu'.
recommended_mtu(max_working_mtu) ==
    IF max_working_mtu > 20 THEN max_working_mtu - 20 ELSE max_working_mtu

\* _test_mtu_ipv6: the report (lines 200-204); probed is the history of the
\* sizes a probe was sent for.
test_mtu_ipv6(replies) ==
    LET scan == mtu_scan(replies, 1, 0)
        max_working_mtu == scan.max_working_mtu
    IN  [max_mtu |-> max_working_mtu,
         recommended_mtu |-> recommended_mtu(max_working_mtu),
         tested_sizes |-> IF max_working_mtu > 0
                          THEN SubSeq(mtu_sizes, 1, index(mtu_sizes, max_working_mtu))
                          ELSE <<>>,
         probed |-> SubSeq(mtu_sizes, 1, scan.sent)]

\* Replies to an MTU probe: an echo reply, or one of the ways of none.
EchoReply == <<"64", SP, "bytes from", SP, "gw", ":", SP, "time=", "5", "ms">>
NoEchoReplies ==
    { None,
      <<>>,
      <<"timeout">>,
      <<"packet too large">>,
      <<"1", SP, "packets transmitted", ",", SP, "0", SP, "received", ",", SP,
        "100", "%", SP, "packet loss">> }

\* The first k sizes get an echo reply, the others do not.
MtuReplyStreams ==
    { [i \in 1..Len(mtu_sizes) |-> IF i <= k THEN EchoReply ELSE bad] :
        k \in 0..Len(mtu_sizes), bad \in NoEchoReplies }

\* Without a connection execute_command returns None for every probe.
TestMtu ==
    /\ Idle
    /\ \E stream \in MtuReplyStreams :
            LET replies == [i \in 1..Len(stream) |-> execute_command(connection, TRUE, stream[i])]
            IN  Applied("test_mtu_ipv6", replies, test_mtu_ipv6(replies))

\* ------------------------------------------------------------ ping probe
\* Numbers in a reply are atoms ("12"); a run of digits is such an atom and int()
\* gives its value.
NumberAtoms == {ToString(n) : n \in 0..MaxNumber}
NumberOf == [a \in NumberAtoms |-> CHOOSE n \in 0..MaxNumber : ToString(n) = a]
IsNumber(a) == a \in DOMAIN NumberOf
int(a) == NumberOf[a]

\* A Python number (int or float) as a fraction in lowest terms.
RECURSIVE GCD(_, _)
GCD(a, b) == IF b = 0 THEN a ELSE GCD(b, a % b)
Frac(n, d) == LET g == GCD(n, d) IN [n |-> n \div g, d |-> d \div g]
float(x) == [n |-> x, d |-> 1]

\* min(), max(), sum() of a non-empty list of whole numbers
min(q) == CHOOSE x \in {q[i] : i \in 1..Len(q)} : \A i \in 1..Len(q) : x <= q[i]
max(q) == CHOOSE x \in {q[i] : i \in 1..Len(q)} : \A i \in 1..Len(q) : x >= q[i]
RECURSIVE sum(_)
sum(q) == IF q = <<>> THEN 0 ELSE Head(q) + sum(Tail(q))

\* The leftmost position at which pattern p matches line, 0 when none;
\* "<d>" in p stands for any number atom.
MatchesAt(line, p, i) ==
    /\ i + Len(p) - 1 <= Len(line)
    /\ \A k \in 1..Len(p) : IF p[k] = "<d>" THEN IsNumber(line[i + k - 1])
                            ELSE line[i + k - 1] = p[k]
search(line, p) ==
    LET hits == {i \in 1..Len(line) : MatchesAt(line, p, i)}
    IN  IF hits = {} THEN 0 ELSE CHOOSE i \in hits : \A j \in hits : i <= j

\* r'time=(\d+(?:\.\d+)?)ms'
TimePattern == <<"time=", "<d>", "ms">>
\* r'(\d+) packets transmitted, (\d+) received, (\d+)% packet loss'
StatsPattern == <<"<d>", SP, "packets transmitted", ",", SP, "<d>", SP, "received", ",", SP,
                  "<d>", "%", SP, "packet loss">>
\* r'min/avg/max = (\d+(?:\.\d+)?)/(\d+(?:\.\d+)?)/(\d+(?:\.\d+)?) ms'
RoundTripPattern == <<"min/avg/max", SP, "=", SP, "<d>", "/", "<d>", "/", "<d>", SP, "ms">>

\* _parse_ping_output, lines 129-135: the times of the per-packet lines.
RECURSIVE ping_times_of(_)
ping_times_of(lines) ==
    IF lines = <<>> THEN <<>>
    ELSE LET line == Head(lines)
             at == search(line, TimePattern)
         IN  (IF /\ Contains(line, <<"time=">>) /\ Contains(line, <<"bytes from">>)
                 /\ at # 0
              THEN <<int(line[at + 1])>> ELSE <<>>)
             \o ping_times_of(Tail(lines))

\* _parse_ping_output, lines 138-154: the loop over the lines for the summary.
RECURSIVE ping_summary_loop(_, _)
ping_summary_loop(lines, res) ==
    IF lines = <<>> THEN res
    ELSE LET line == Head(lines)
             s == search(line, StatsPattern)
             r == search(line, RoundTripPattern)
             res1 == IF Contains(line, <<"packets transmitted">>) /\ s # 0
                     THEN [res EXCEPT !.packets_sent = int(line[s]),
                                      !.packets_received = int(line[s + 5]),
                                      !.packet_loss_percent = float(int(line[s + 10])),
                                      !.success = int(line[s + 10]) < 100]
                     ELSE res
             res2 == IF /\ Contains(line, <<"round-trip">>)
                        /\ Contains(line, <<"min/avg/max">>)
                        /\ r # 0
                     THEN [res1 EXCEPT !.min_time_ms = float(int(line[r + 4])),
                                       !.avg_time_ms = float(int(line[r + 6])),
                                       !.max_time_ms = float(int(line[r + 8]))]
                     ELSE res1
         IN  ping_summary_loop(Tail(lines), res2)

\* _parse_ping_output.  The field raw_output is left out.  raised: the
\* division by packets_sent at line 163 when that is 0.
parse_ping_output(output, target) ==
    LET lines == SplitOn(output, NL)
        ping_times == ping_times_of(lines)
        res == ping_summary_loop(lines,
                   [target |-> target, success |-> FALSE, packets_sent |-> 0,
                    packets_received |-> 0, packet_loss_percent |-> float(100),
                    avg_time_ms |-> float(0), min_time_ms |-> float(0),
                    max_time_ms |-> float(0), times |-> <<>>])
        n == Len(ping_times)
    IN  IF ping_times # <<>> /\ res.avg_time_ms = float(0)
        THEN IF res.packets_sent = 0
             THEN [raised |-> TRUE, result |-> res]
             ELSE [raised |-> FALSE,
                   result |-> [res EXCEPT
                       !.times = ping_times,
                       !.min_time_ms = float(min(ping_times)),
                       !.max_time_ms = float(max(ping_times)),
                       !.avg_time_ms = Frac(sum(ping_times), n),
                       !.packets_received = n,
                       !.packet_loss_percent =
                           IF 100 * n >= 100 * res.packets_sent THEN float(0)
                           ELSE Frac(100 * res.packets_sent - 100 * n, res.packets_sent),
                       !.success = (n > 0)]]
        ELSE [raised |-> FALSE, result |-> res]

\* _ping_ipv6, given the reply to the ping command: the parsed result, or a
\* failure record when there is no reply or the parser raises.
ping_ipv6(output, target) ==
    IF ~Truthy(output)
    THEN [target |-> target, success |-> FALSE, error |-> "Nenhuma resposta do comando ping"]
    ELSE LET parsed == parse_ping_output(output, target)
         IN  IF parsed.raised
             THEN [target |-> target, success |-> FALSE, error |-> "division by zero"]
             ELSE parsed.result

\* count of _ping_ipv6
PingCount == 4

\* A ping as it went: the round-trip time in ms of each echo reply, in order
\* (Micro for one below a millisecond that the device prints in microseconds),
\* the form of the summary line, and whether a round-trip line follows.
Micro == 0 - 1
PingTimes == {Micro, 0, 1, 12}
SummaryForms == {"none", "received", "packets received"}
PingCases ==
    [times : SeqsUpTo(PingTimes, PingCount), summary : SummaryForms, round_trip : BOOLEAN]

Millis(t) == IF t = Micro THEN 0 ELSE t
LossPercent(c) == ((PingCount - Len(c.times)) * 100) \div PingCount
RoundTrip(c) ==
    LET ms == [i \in 1..Len(c.times) |-> Millis(c.times[i])]
    IN  [min |-> min(ms), avg |-> sum(ms) \div Len(ms), max |-> max(ms)]

PacketLine(k, t) ==
    <<"64", SP, "bytes from", SP, "gw", ":", SP, "icmp_seq=", ToString(k), SP>>
    \o (IF t = Micro THEN <<"time=", "850", "us">> ELSE <<"time=", ToString(t), "ms">>)

SummaryLines(c) ==
    LET S == ToString(PingCount)
        R == ToString(Len(c.times))
        L == ToString(LossPercent(c))
    IN  IF c.summary = "received"
        THEN << <<S, SP, "packets transmitted", ",", SP, R, SP, "received", ",", SP,
                  L, "%", SP, "packet loss">> >>
        ELSE IF c.summary = "packets received"
        THEN << <<S, SP, "packets transmitted", ",", SP, R, SP, "packets", SP, "received",
                  ",", SP, L, "%", SP, "packet loss">> >>
        ELSE <<>>

RoundTripLines(c) ==
    IF c.round_trip /\ c.times # <<>>
    THEN LET rt == RoundTrip(c)
         IN  << <<"round-trip", SP, "min/avg/max", SP, "=", SP, ToString(rt.min), "/",
                   ToString(rt.avg), "/", ToString(rt.max), SP, "ms">> >>
    ELSE <<>>

\* The reply of the device to the ping command.
render_ping(c) ==
    JoinLines(<< <<"PING", SP, "gw">> >>
              \o [k \in 1..Len(c.times) |-> PacketLine(k, c.times[k])]
              \o SummaryLines(c) \o RoundTripLines(c))

PingIpv6 ==
    /\ Idle
    /\ \E c \in PingCases, transport_ok \in BOOLEAN :
            LET output == execute_command(connection, transport_ok, render_ping(c))
            IN  Applied("ping_ipv6", [case |-> c, output |-> output], ping_ipv6(output, "gw"))

\* ------------------------------------------------ connectivity verifier
\* Mutant of overall_status_ok: the external targets are not looked at.
overall_without_external(gateway_ok, external_ok, mtu_ok) == gateway_ok /\ mtu_ok

\* _generate_connectivity_summary, line 223: the condition of "SUCESSO".
overall_status_ok(gateway_ok, external_ok, mtu_ok) == gateway_ok /\ external_ok /\ mtu_ok

\* _generate_connectivity_summary
generate_connectivity_summary(results) ==
    LET gateway_ok == results.gateway_test.success
        external_tests == results.external_tests
        external_ok == \E t \in DOMAIN external_tests : external_tests[t].success
        mtu_ok == mtu_adequate(results.mtu_test.max_mtu)
    IN  [overall_status |-> IF overall_status_ok(gateway_ok, external_ok, mtu_ok)
                            THEN "SUCESSO" ELSE "PROBLEMAS",
         gateway_reachable |-> gateway_ok,
         external_reachable |-> external_ok,
         mtu_adequate |-> mtu_ok,
         max_mtu |-> results.mtu_test.max_mtu]

\* The default of test_targets (line 37).
DefaultTargets == <<"2001:4860:4860::8888">>

\* The commands a run of test_ipv6_connectivity sends, in order.
PingCommand(target) == [c |-> "ping", target |-> target, size |-> 0]
MtuCommand(target, size) == [c |-> "mtu_ping", target |-> target, size |-> size]

\* The results dict of test_ipv6_connectivity once its three tests have run
\* (lines 39-67), and the commands sent for them.
connectivity_report(gateway, targets, results) ==
    [results |-> [gateway_test |-> results.gateway_test,
                  external_tests |-> results.external_tests,
                  mtu_test |-> results.mtu_test,
                  summary |-> generate_connectivity_summary(results)],
     commands |-> <<PingCommand(gateway)>>
                  \o [i \in 1..Len(targets) |-> PingCommand(targets[i])]
                  \o [i \in 1..Len(results.mtu_test.probed) |->
                         MtuCommand(gateway, results.mtu_test.probed[i])]]

\* test_ipv6_connectivity, given the replies to its ping commands (the
\* gateway's first) and to its MTU probes: the results, {} without a
\* connection, and the commands sent.  A target listed twice is probed twice
\* and keeps the result of its last probe.
test_ipv6_connectivity(conn, gateway, test_targets, pings, mtu) ==
    IF ~is_connected(conn) THEN [results |-> <<>>, commands |-> <<>>]
    ELSE LET targets == IF test_targets = <<>> THEN DefaultTargets ELSE test_targets
             last_probe(t) == CHOOSE i \in 1..Len(targets) :
                                  /\ targets[i] = t
                                  /\ \A j \in (i + 1)..Len(targets) : targets[j] # t
         IN  connectivity_report(gateway, targets,
                 [gateway_test |-> ping_ipv6(pings[1], gateway),
                  external_tests |-> [t \in {targets[i] : i \in 1..Len(targets)} |->
                                         ping_ipv6(pings[1 + last_probe(t)], t)],
                  mtu_test |-> test_mtu_ipv6(mtu)])

\* Targets a caller may pass, and the replies a ping of the verifier may get:
\* four echo replies, none (all packets lost), or no reply from the transport.
MaxTargets == 2
ExternalTargets == {"t1", "t2"}
PingAnswered == [times |-> <<12, 12, 12, 12>>, summary |-> "received", round_trip |-> TRUE]
PingLost == [times |-> <<>>, summary |-> "received", round_trip |-> FALSE]
VerifierReplies == {render_ping(PingAnswered), render_ping(PingLost), None}
VerifierMtuStreams ==
    { [i \in 1..Len(mtu_sizes) |-> IF i <= k THEN EchoReply ELSE <<"timeout">>] :
        k \in 0..Len(mtu_sizes) }

TestIpv6Connectivity ==
    /\ Idle
    /\ \E test_targets \in SeqsUpTo(ExternalTargets, MaxTargets), mtu \in VerifierMtuStreams :
            \E pings \in [1..(1 + Len(IF test_targets = <<>> THEN DefaultTargets
                                      ELSE test_targets)) -> VerifierReplies] :
                LET sent_pings == [i \in 1..Len(pings) |-> execute_command(connection, TRUE, pings[i])]
                    sent_mtu == [i \in 1..Len(mtu) |-> execute_command(connection, TRUE, mtu[i])]
                IN  Applied("test_ipv6_connectivity",
                            [gateway |-> "gw", test_targets |-> test_targets,
                             pings |-> sent_pings, mtu |-> sent_mtu],
                            test_ipv6_connectivity(connection, "gw", test_targets,
                                                   sent_pings, sent_mtu))

\* ------------------------------------------------------- tunnel lookup
\* Desired names and live session lines in several letter cases.  A session
\* line is   0 DR <l2tp-user> user   with the device's spelling of the
\* prefix and of the user.
NameCases == { <<"a", "b">>, <<"A", "b">>, <<"A", "B">>, <<"c">> }
PrefixCases == { L2TP, <<"L", "2", "T", "P">> }
UserCases == { <<"a", "b">>, <<"A", "B">>, <<"c", "a">> }
CasedSessionLine(prefix, u) ==
    <<"0", " ", "D", "R", " ", "<">> \o prefix \o <<"-">> \o u \o <<">", " ">> \o u
CasedSessionLines == { CasedSessionLine(prefix, u) : prefix \in PrefixCases, u \in UserCases }
MaxSessions == 2

FindL2tpTunnelByName ==
    /\ Idle
    /\ \E tunnel_name \in NameCases, lines \in SeqsUpTo(CasedSessionLines, MaxSessions),
           transport_ok \in BOOLEAN :
            LET output == execute_command(connection, transport_ok,
                                          JoinLines(<<L2tpHeader>> \o lines))
            IN  Applied("find_l2tp_tunnel_by_name",
                        [tunnel_name |-> tunnel_name, lines |-> lines, output |-> output],
                        find_l2tp_tunnel_by_name(output, tunnel_name))

\* ------------------------------------------------- desired-state files
\* A file is [exists, lines]; a line is its text without the newline.
\* Mutant of after_invalid_line: a line with a wrong field count ends the load.
after_invalid_line_stop(rest) == <<>>

\* What a loader goes on with after a line with a wrong field count
\* (`continue`, lines 45, 82, 117): the rest of the file.
after_invalid_line(rest) == rest

\* The loop shared by the three loaders (lines 36-45, 73-82, 108-117): the
\* stripped fields of the lines that are kept, in file order.
RECURSIVE accepted_parts(_, _)
accepted_parts(lines, nfields) ==
    IF lines = <<>> THEN <<>>
    ELSE LET line == Strip(Head(lines))
             parts == SplitOn(line, ",")
         IN  IF line = <<>> \/ Head(line) = "#"
             THEN accepted_parts(Tail(lines), nfields)
             ELSE IF Len(parts) # nfields
             THEN accepted_parts(after_invalid_line(Tail(lines)), nfields)
             ELSE << [i \in 1..nfields |-> Strip(parts[i])] >>
                  \o accepted_parts(Tail(lines), nfields)

\* mappings[key] = value
Put(mappings, key, value) ==
    [k \in DOMAIN mappings \cup {key} |-> IF k = key THEN value ELSE mappings[k]]

RECURSIVE tunnel_rows(_, _)
tunnel_rows(rows, mappings) ==
    IF rows = <<>> THEN mappings
    ELSE LET r == Head(rows)
         IN  tunnel_rows(Tail(rows),
                 Put(mappings, r[1],
                     [client_hostname |-> r[2], server_ip |-> r[3], client_ip |-> r[4],
                      route_network |-> r[5], gateway |-> r[6]]))

\* load_tunnel_mapping: a dict keyed by tunnel name, {} when the file cannot
\* be read.
load_tunnel_mapping(file) ==
    IF ~file.exists THEN <<>> ELSE tunnel_rows(accepted_parts(file.lines, 6), <<>>)

RECURSIVE client_rows(_, _)
client_rows(rows, mappings) ==
    IF rows = <<>> THEN mappings
    ELSE LET r == Head(rows)
         IN  client_rows(Tail(rows),
                 Put(mappings, r[1],
                     [bridge_interface |-> r[2], bridge_ip |-> r[3], gateway |-> r[4]]))

\* load_client_mapping: a dict keyed by hostname, {} when the file cannot be
\* read.
load_client_mapping(file) ==
    IF ~file.exists THEN <<>> ELSE client_rows(accepted_parts(file.lines, 4), <<>>)

\* load_hosts: the list of (ip, hostname, method), [] when the file cannot be
\* read.
load_hosts(file) ==
    IF ~file.exists THEN <<>> ELSE accepted_parts(file.lines, 3)

\* Lines a desired-state file may hold: n fields under one of two keys (one
\* of them also written with blanks around the fields), one field too few,
\* one too many, a blank line, a line of blanks, a comment, a comment of n
\* fields.
RECURSIVE FieldsLine(_, _)
FieldsLine(key, n) == IF n = 1 THEN <<key>> ELSE FieldsLine(key, n - 1) \o <<",", "x">>
RECURSIVE SpacedLine(_, _)
SpacedLine(key, n) ==
    IF n = 1 THEN <<SP, key, SP>> ELSE SpacedLine(key, n - 1) \o <<",", SP, "x", SP>>
FileLines(n) ==
    { FieldsLine("k1", n), FieldsLine("k2", n), SpacedLine("k1", n),
      FieldsLine("k1", n - 1), FieldsLine("k1", n + 1),
      <<>>, <<SP>>, <<"#", "x">>, <<"#">> \o FieldsLine("k1", n) }
MaxLines == 3
Files(n) ==
    {[exists |-> FALSE, lines |-> <<>>]}
    \cup {[exists |-> TRUE, lines |-> l] : l \in SeqsUpTo(FileLines(n), MaxLines)}

LoadTunnelMapping ==
    /\ Idle
    /\ \E file \in Files(6) : Applied("load_tunnel_mapping", file, load_tunnel_mapping(file))

LoadClientMapping ==
    /\ Idle
    /\ \E file \in Files(4) : Applied("load_client_mapping", file, load_client_mapping(file))

LoadHosts ==
    /\ Idle
    /\ \E file \in Files(3) : Applied("load_hosts", file, load_hosts(file))

\* ------------------------------------------------------ record parsers
\* Lines of an address listing, after the legend and the column header: an
\* entry of five columns, a numbered line cut short after its address, a
\* numbered line with nothing but its number, a line of text.
AddressLineKinds == {"entry", "short", "number", "text"}
AddressListLines ==
    [kind : {"entry"}, host : HostParts]
    \cup [kind : AddressLineKinds \ {"entry"}, host : {WantedHost}]
ListedLine(n, l) ==
    LET e == [host |-> l.host, plen |-> "126", iface |-> "l2tp-x"]
    IN  IF l.kind = "entry" THEN AddressLine(n, e)
        ELSE IF l.kind = "short" THEN <<SP, Digits[n + 1], SP, SP, "G", SP, e.host, "/", e.plen>>
        ELSE IF l.kind = "number" THEN <<SP, Digits[n + 1]>>
        ELSE <<";;;", SP, "text">>
MaxListed == 3

ParseIpv6Addresses ==
    /\ Idle
    /\ \E ls \in SeqsUpTo(AddressListLines, MaxListed) :
            LET output == execute_command(connection, TRUE,
                              JoinLines(<<AddressFlags, AddressHeader>>
                                        \o [i \in 1..Len(ls) |-> ListedLine(i - 1, ls[i])]))
            IN  Applied("parse_ipv6_addresses",
                        [lines |-> ls, output |-> output],
                        [parsed |-> IF Truthy(output) THEN parse_ipv6_addresses(output)
                                    ELSE [raised |-> FALSE, addresses |-> <<>>],
                         listed |-> list_ipv6_addresses(output)])

\* Route listings: up to MaxListed routes, all shown in the same form.
ListedRoutes == [dst : Dsts, gw : {WantedGateway}, check_gateway : {FALSE}]

ParseIpv6Routes ==
    /\ Idle
    /\ \E table \in SeqsUpTo(ListedRoutes, MaxListed), form \in RouteForms :
            LET output == execute_command(connection, TRUE, render_route_print(table, form))
            IN  Applied("parse_ipv6_routes",
                        [table |-> table, form |-> form, output |-> output],
                        [parsed |-> IF Truthy(output) THEN parse_ipv6_routes(output) ELSE <<>>,
                         listed |-> list_ipv6_routes(output)])

\* ------------------------------------------------------------ add steps
\* The classification of the reply to an add command, as the address step
\* (marker ADDR_MARKER) and the route step (marker ROUTE_MARKER) of
\* configure_l2tp_server_tunnel and configure_l2tp_client make it.
AddStep ==
    /\ Idle
    /\ \E reply \in AddReplies, transport_ok \in BOOLEAN, marker \in {ADDR_MARKER, ROUTE_MARKER} :
           LET output == execute_command(connection, transport_ok, reply)
           IN  Applied("add_step", [output |-> output, marker |-> marker],
                       add_step_outcome(output, marker))

\* -------------------------------------------------------------- removals
\* MikrotikIPv6Config._find_address_id, given the reply to the print
\* command: the id of the first listed address with the host part, <<>>
\* (Python None) when none has it.
\* The loop of _find_address_id over the parsed addresses (lines 165-172).
first_address_id(addresses, address) ==
    LET hits == {i \in 1..Len(addresses) :
                    host_part(addresses[i].address) = host_part(address)}
    IN  IF hits = {} THEN <<>>
        ELSE addresses[CHOOSE i \in hits : \A k \in hits : i <= k].id
find_address_id(output, address) == first_address_id(list_ipv6_addresses(output), address)

\* remove_ipv6_address once the id is looked up (lines 84-97).
remove_address_by_id(address_id, remove_reply, print) ==
    IF ~Truthy(address_id) THEN [result |-> TRUE, commands |-> <<print>>]
    ELSE [result |-> ~is_rejection(remove_reply),
          commands |-> <<print, [c |-> "address remove", arg |-> address_id]>>]

\* MikrotikIPv6Config.remove_ipv6_address, given the replies to its print
\* and remove commands: what it returns and the commands it sent.
remove_ipv6_address(conn, listing_reply, remove_reply, interface, address) ==
    IF ~is_connected(conn) THEN [result |-> FALSE, commands |-> <<>>]
    ELSE remove_address_by_id(find_address_id(listing_reply, address), remove_reply,
                              [c |-> "address print", arg |-> <<interface>>])

\* The loop of _find_route_id over the parsed routes (lines 166-171):
\* gateway <<>> stands for Python None.
first_route_id(routes, dst_address, gateway) ==
    LET hits == {i \in 1..Len(routes) :
                    /\ routes[i].dst_address = dst_address
                    /\ (gateway = <<>> \/ routes[i].gateway = gateway)}
    IN  IF hits = {} THEN <<>>
        ELSE routes[CHOOSE i \in hits : \A k \in hits : i <= k].id

\* MikrotikRoutes._find_route_id, given the reply to the print command.
find_route_id(output, dst_address, gateway) ==
    first_route_id(list_ipv6_routes(output), dst_address, gateway)

\* remove_ipv6_route once the id is looked up (lines 88-101).
remove_route_by_id(route_id, remove_reply, print) ==
    IF ~Truthy(route_id) THEN [result |-> TRUE, commands |-> <<print>>]
    ELSE [result |-> ~is_rejection(remove_reply),
          commands |-> <<print, [c |-> "route remove", arg |-> route_id]>>]

\* MikrotikRoutes.remove_ipv6_route
remove_ipv6_route(conn, listing_reply, remove_reply, dst_address, gateway) ==
    IF ~is_connected(conn) THEN [result |-> FALSE, commands |-> <<>>]
    ELSE remove_route_by_id(find_route_id(listing_reply, dst_address, gateway), remove_reply,
                            [c |-> "route print", arg |-> <<>>])

\* The device's side of a remove command: the entry that stood under that
\* number in the listing just printed leaves the table.
Without(q, n) == [i \in 1..(Len(q) - 1) |-> IF i < n THEN q[i] ELSE q[i + 1]]
NumberOfId(id) == IF id = <<>> THEN 0 ELSE index(Digits, id[1])
device_remove(shown, commands) ==
    IF Len(commands) = 2 /\ NumberOfId(commands[2].arg) \in 1..Len(shown)
    THEN Without(shown, NumberOfId(commands[2].arg))
    ELSE shown

\* Replies of a device to a remove command: it accepts, or it refuses.
RemoveReplies == { <<>>, <<"failure", ":", "x">> }

RemoveIpv6Address ==
    /\ Idle
    /\ \E shown \in {q \in SeqsUpTo([host : HostParts, plen : {"126"}, iface : {"l2tp-x"}],
                                     MaxAddresses) : Distinct(q)},
           transport_ok \in BOOLEAN, remove_reply \in RemoveReplies :
            LET listing_reply == execute_command(connection, transport_ok,
                                                 render_address_print(shown, "l2tp-x"))
                address == <<WantedHost, "/", "126">>
            IN  \E r \in {remove_ipv6_address(connection, listing_reply,
                                               execute_command(connection, TRUE, remove_reply),
                                               "l2tp-x", address)} :
                    Applied("remove_ipv6_address",
                            [shown |-> shown, listing |-> listing_reply,
                             remove_reply |-> remove_reply, wanted |-> WantedHost],
                            [result |-> r.result, commands |-> r.commands,
                             left |-> IF remove_reply = <<>>
                                      THEN device_remove(shown, r.commands) ELSE shown])

RemoveIpv6Route ==
    /\ Idle
    /\ \E shown \in {q \in SeqsUpTo(ListedRoutes, MaxRoutes + 1) : Distinct(q)},
           form \in RouteForms, gateway \in {<<>>, <<WantedGateway>>},
           transport_ok \in BOOLEAN, remove_reply \in RemoveReplies :
            LET listing_reply == execute_command(connection, transport_ok,
                                                 render_route_print(shown, form))
                dst == "2804::14/126"
            IN  \E r \in {remove_ipv6_route(connection, listing_reply,
                                             execute_command(connection, TRUE, remove_reply),
                                             <<dst>>, gateway)} :
                    Applied("remove_ipv6_route",
                            [shown |-> shown, form |-> form, listing |-> listing_reply,
                             remove_reply |-> remove_reply, wanted |-> dst],
                            [result |-> r.result, commands |-> r.commands,
                             left |-> IF remove_reply = <<>>
                                      THEN device_remove(shown, r.commands) ELSE shown])

\* ------------------------------------------------ one connection object
\* A MikrotikConnection object over any sequence of calls: the transport
\* it holds (self.connection), and, of the transports it opened (numbered
\* in the order opened), those nobody closed.
NewConnection == [connection |-> NoConn, connection_type |-> "none", open |-> {}, opened |-> 0]

\* connect_ssh: the object holds the new session when ssh.connect() returns,
\* whatever it held before (lines 53-55); when ssh.connect() raises nothing
\* is assigned (lines 60-71).
SshOutcomes == {"ok", "failed"}
Connection_connect_ssh(o, outcome) ==
    IF outcome = "ok"
    THEN [connection |-> o.opened + 1, connection_type |-> "ssh",
          open |-> o.open \cup {o.opened + 1}, opened |-> o.opened + 1]
    ELSE o

\* connect_telnet: Telnet() raises and nothing is opened ("refused"); the
\* login dialogue ends without a prompt and tn.close() is called (line
\* 108); the dialogue raises after Telnet() opened the session ("broken",
\* lines 111-116: no close); or the object holds the new session.
TelnetOutcomes == {"ok", "refused", "no prompt", "broken"}
Connection_connect_telnet(o, outcome) ==
    IF outcome = "ok"
    THEN [connection |-> o.opened + 1, connection_type |-> "telnet",
          open |-> o.open \cup {o.opened + 1}, opened |-> o.opened + 1]
    ELSE IF outcome = "refused" THEN o
    ELSE IF outcome = "no prompt" THEN [o EXCEPT !.opened = @ + 1]
    ELSE [o EXCEPT !.opened = @ + 1, !.open = @ \cup {o.opened + 1}]

\* disconnect, lines 177-188: closes what the object holds, if anything.
Connection_disconnect(o) ==
    IF o.connection # NoConn
    THEN [o EXCEPT !.connection = NoConn, !.connection_type = "none",
                   !.open = @ \ {o.connection}]
    ELSE o

ConnectionCalls ==
    [f : {"connect_ssh"}, outcome : SshOutcomes]
    \cup [f : {"connect_telnet"}, outcome : TelnetOutcomes]
    \cup [f : {"disconnect"}, outcome : {"-"}]

Connection_call(o, c) ==
    IF c.f = "connect_ssh" THEN Connection_connect_ssh(o, c.outcome)
    ELSE IF c.f = "connect_telnet" THEN Connection_connect_telnet(o, c.outcome)
    ELSE Connection_disconnect(o)

\* The object after each call of a sequence.  A session that no reference
\* leads to any more stays open, or the runtime's collector has closed it
\* (collected), as the runtime pleases.
RECURSIVE connection_history(_, _, _)
connection_history(o, calls, collected) ==
    IF calls = <<>> THEN <<>>
    ELSE LET after == Connection_call(o, Head(calls))
         IN  << [connected |-> is_connected(after.connection),
                 held |-> after.connection,
                 open |-> IF collected THEN after.open \cap {after.connection}
                          ELSE after.open] >>
             \o connection_history(after, Tail(calls), collected)

MaxConnectionCalls == 3

ConnectionCallSequence ==
    /\ Idle
    /\ \E calls \in SeqsUpTo(ConnectionCalls, MaxConnectionCalls) \ {<<>>},
           collected \in BOOLEAN :
            Applied("connection_calls", calls,
                    connection_history(NewConnection, calls, collected))

\* --------------------------------------------------- whole operations
\* Every operation of the engine as a function of the connection and of the
\* replies its commands get: what it returns and the commands it sent.
Cmd(c) == [c |-> c, target |-> "-", size |-> 0]
Out(res, commands) == [result |-> res, commands |-> commands]

\* Mutant of add_ipv6_address: the connection is not checked first.
add_ipv6_address_unguarded(conn, listing_reply, reply, address) ==
    IF address_exists(listing_reply, address) THEN Out(TRUE, <<Cmd("address print")>>)
    ELSE Out(add_succeeded(reply), <<Cmd("address print"), Cmd("address add")>>)

\* MikrotikIPv6Config.add_ipv6_address
add_ipv6_address(conn, listing_reply, reply, address) ==
    IF ~is_connected(conn) THEN Out(FALSE, <<>>)
    ELSE IF address_exists(listing_reply, address) THEN Out(TRUE, <<Cmd("address print")>>)
    ELSE Out(add_succeeded(reply), <<Cmd("address print"), Cmd("address add")>>)

\* MikrotikRoutes.add_ipv6_route
add_ipv6_route(conn, listing_reply, reply, dst_address, gateway) ==
    IF ~is_connected(conn) THEN Out(FALSE, <<>>)
    ELSE IF route_exists(listing_reply, dst_address, gateway)
    THEN Out(TRUE, <<Cmd("route print")>>)
    ELSE Out(add_succeeded(reply), <<Cmd("route print"), Cmd("route add")>>)

\* MikrotikL2TPManager._interface_exists returns
\* "output and interface_name in output": the reply itself when it is None or
\* empty, else whether the name is in it.
interface_exists_value(output, interface_name) ==
    IF Truthy(output) THEN Contains(output, interface_name) ELSE output

\* MikrotikL2TPManager._list_available_bridges: the quoted name of every
\* line that holds name= and an R.
QUOTE == "\""
bridge_name(line) ==
    LET i == FindAtom(line, "name=", 1)
        j == IF i # 0 /\ i + 1 <= Len(line) /\ line[i + 1] = QUOTE
             THEN FindAtom(line, QUOTE, i + 2) ELSE 0
    IN  IF j > i + 2 THEN SubSeq(line, i + 2, j - 1) ELSE <<>>
list_available_bridges(output) ==
    IF ~Truthy(output) THEN <<>>
    ELSE LET lines == SplitOn(output, NL)
             named == SelectSeq(lines, LAMBDA line :
                          /\ Contains(line, <<"name=">>) /\ Contains(line, <<"R">>)
                          /\ bridge_name(line) # <<>>)
         IN  [i \in 1..Len(named) |-> bridge_name(named[i])]

\* MikrotikL2TPManager.configure_l2tp_server_tunnel
configure_l2tp_server_tunnel(conn, tunnel_name, l2tp_print, addr_add, route_add) ==
    IF ~is_connected(conn) THEN Out(FALSE, <<>>)
    ELSE IF ~Truthy(find_l2tp_tunnel_by_name(l2tp_print, tunnel_name))
    THEN Out(FALSE, <<Cmd("l2tp print")>>)
    ELSE IF add_step_outcome(addr_add, ADDR_MARKER) = "Failed"
    THEN Out(FALSE, <<Cmd("l2tp print"), Cmd("address add")>>)
    ELSE Out(add_step_outcome(route_add, ROUTE_MARKER) # "Failed",
             <<Cmd("l2tp print"), Cmd("address add"), Cmd("route add")>>)

\* MikrotikL2TPManager.configure_l2tp_client; r holds the replies to the
\* commands it may send, tests what test_ipv6_connectivity does when
\* _test_connectivity_after_config calls it for ClientTestTargets.
ClientTestTargets == <<"2001:4860:4860::8888", "2001:4860:4860::8844">>
configure_l2tp_client(conn, r, tests) ==
    IF ~is_connected(conn) THEN Out(FALSE, <<>>)
    ELSE IF ~interface_exists(r.iface_print, BridgeName)
    THEN Out(FALSE, <<Cmd("interface print"), Cmd("bridge print")>>)
    ELSE LET ip == add_step_outcome(r.addr_add, ADDR_MARKER)
             route == add_step_outcome(r.route_add, ROUTE_MARKER)
             upto_ip == <<Cmd("interface print"), Cmd("address add")>>
                        \o (IF ip = "Applied" THEN <<Cmd("address print")>> ELSE <<>>)
             upto_route == upto_ip \o <<Cmd("route add")>>
                           \o (IF route = "Applied" THEN <<Cmd("route print")>> ELSE <<>>)
         IN  IF ip = "Failed" THEN Out(FALSE, upto_ip)
             ELSE IF route = "Failed" THEN Out(FALSE, upto_ip \o <<Cmd("route add")>>)
             ELSE Out(TRUE, upto_route \o tests.commands)

\* The operations that return a failure value without a connection, and
\* the helpers that hand a reply on.
PublicOps ==
    {"add_ipv6_address", "remove_ipv6_address", "list_ipv6_addresses",
     "add_ipv6_route", "remove_ipv6_route", "list_ipv6_routes",
     "configure_l2tp_server_tunnel", "configure_l2tp_client",
     "test_ipv6_connectivity", "execute_command"}
HelperOps ==
    {"find_l2tp_tunnel_by_name", "interface_exists", "list_available_bridges",
     "ping_ipv6", "test_mtu_ipv6"}

WantedAddress == <<WantedHost, "/", "126">>
WantedDst == "2804::14/126"

\* What a removal and an MTU probe return, with the commands they sent.
RemovalOut(x) == Out(x.result, [i \in 1..Len(x.commands) |-> Cmd(x.commands[i].c)])
MtuOut(x) == Out(x, [i \in 1..Len(x.probed) |-> MtuCommand("gw", x.probed[i])])

\* One operation, given the connection, the replies r its commands get
\* (every ping gets r.ping, every MTU probe r.mtu) and, for the operations
\* that run the verifier, what test_ipv6_connectivity does with them.
engine_call(op, conn, r, tests) ==
    CASE op = "add_ipv6_address" -> add_ipv6_address(conn, r.listing, r.change, WantedAddress)
      [] op = "remove_ipv6_address" ->
            RemovalOut(remove_ipv6_address(conn, r.listing, r.change, "l2tp-x", WantedAddress))
      [] op = "list_ipv6_addresses" ->
            IF ~is_connected(conn) THEN Out(<<>>, <<>>)
            ELSE Out(list_ipv6_addresses(r.listing), <<Cmd("address print")>>)
      [] op = "add_ipv6_route" ->
            add_ipv6_route(conn, r.routes, r.change, <<WantedDst>>, <<WantedGateway>>)
      [] op = "remove_ipv6_route" ->
            RemovalOut(remove_ipv6_route(conn, r.routes, r.change,
                                         <<WantedDst>>, <<WantedGateway>>))
      [] op = "list_ipv6_routes" ->
            IF ~is_connected(conn) THEN Out(<<>>, <<>>)
            ELSE Out(list_ipv6_routes(r.routes), <<Cmd("route print")>>)
      [] op = "configure_l2tp_server_tunnel" ->
            configure_l2tp_server_tunnel(conn, <<"a", "b">>, r.l2tp_print, r.addr_add, r.route_add)
      [] op = "configure_l2tp_client" -> configure_l2tp_client(conn, r, tests)
      [] op = "test_ipv6_connectivity" -> Out(tests.results, tests.commands)
      [] op = "execute_command" ->
            Out(execute_command(conn, TRUE, r.change),
                IF is_connected(conn) THEN <<Cmd("command")>> ELSE <<>>)
      [] op = "find_l2tp_tunnel_by_name" ->
            Out(find_l2tp_tunnel_by_name(r.l2tp_print, <<"a", "b">>), <<Cmd("l2tp print")>>)
      [] op = "interface_exists" ->
            Out(interface_exists_value(r.iface_print, BridgeName), <<Cmd("interface print")>>)
      [] op = "list_available_bridges" ->
            Out(list_available_bridges(r.bridge_print), <<Cmd("bridge print")>>)
      [] op = "ping_ipv6" -> Out(ping_ipv6(r.ping, "gw"), <<PingCommand("gw")>>)
      [] OTHER -> MtuOut(test_mtu_ipv6([i \in 1..Len(mtu_sizes) |-> r.mtu]))

\* The replies of a device to the commands of one operation.
ListedAddress(host) == [host |-> host, plen |-> "126", iface |-> "l2tp-x"]
BridgeLine == <<"0", SP, "R", SP, "name=", QUOTE, "b", "r", QUOTE>>
ReplyCases ==
    [listing : {render_address_print(<<ListedAddress("2804::11"), ListedAddress("2804::12")>>,
                                     "l2tp-x"),
                render_address_print(<<>>, "l2tp-x")},
     routes : {render_route_print(<<[dst |-> WantedDst, gw |-> WantedGateway,
                                     check_gateway |-> FALSE]>>, "oneline")},
     change : {<<>>, <<"failure", ":", "x">>},
     l2tp_print : {RenderL2tp(<< <<"a", "b">> >>)},
     iface_print : {RenderIfacePrint({BridgeName}, BridgeName)},
     bridge_print : {JoinLines(<<L2tpHeader, BridgeLine>>)},
     addr_add : {<<>>, <<"failure", ":", "x">>},
     route_add : {<<>>},
     ping : {render_ping(PingAnswered)},
     mtu : {EchoReply}]
ReplyFields ==
    {"listing", "routes", "change", "l2tp_print", "iface_print", "bridge_print",
     "addr_add", "route_add", "ping", "mtu"}

\* One operation run three times on the same object: with every reply
\* delivered, and with one of the replies absent (None), then empty.
Delivered(conn, r) == [g \in ReplyFields |-> execute_command(conn, TRUE, r[g])]
Replies3(conn, r, f) ==
    [delivered |-> Delivered(conn, r),
     absent |-> Delivered(conn, [r EXCEPT ![f] = None]),
     empty |-> Delivered(conn, [r EXCEPT ![f] = <<>>])]
RunsVerifier(op) == op \in {"configure_l2tp_client", "test_ipv6_connectivity"}
EngineCall ==
    /\ Idle
    /\ \E op \in PublicOps \cup HelperOps, r \in ReplyCases, f \in ReplyFields :
         \E rs \in {Replies3(connection, r, f)} :
         \E tests \in {[k \in DOMAIN rs |->
                           IF RunsVerifier(op)
                           THEN test_ipv6_connectivity(connection, "gw", ClientTestTargets,
                                                       [i \in 1..3 |-> rs[k].ping],
                                                       [i \in 1..Len(mtu_sizes) |-> rs[k].mtu])
                           ELSE Out(<<>>, <<>>)]} :
            Applied("engine_call",
                    [op |-> op, conn |-> connection, field |-> f, replies |-> rs.delivered],
                    [k \in DOMAIN rs |-> engine_call(op, connection, rs[k], tests[k])])

NextUnits ==
    \/ EngineCall
    \/ ConnectionCallSequence
    \/ RemoveIpv6Address
    \/ RemoveIpv6Route
    \/ TestMtu
    \/ PingIpv6
    \/ TestIpv6Connectivity
    \/ FindL2tpTunnelByName
    \/ LoadTunnelMapping
    \/ LoadClientMapping
    \/ LoadHosts
    \/ ParseIpv6Addresses
    \/ ParseIpv6Routes
    \/ AddStep

SpecUnits == InitUnits /\ [][NextUnits]_vars

\* ================================================ claims (functions)
\* Number of sizes, from the smallest on, whose probe got an echo reply.
Echoed(replies) ==
    LET miss == {i \in 1..Len(replies) : ~Contains(replies[i], <<"time=">>)}
    IN  IF miss = {} THEN Len(replies)
        ELSE (CHOOSE i \in miss : \A j \in miss : i <= j) - 1

\* C12: the MTU probe scans the sizes in ascending order and sends no probe
\* after the first size without a response; max_mtu is the highest size that
\* responded, recommended_mtu is 20 below it, and tested_sizes lists exactly
\* the sizes probed, the first failing one included.
C12_MtuScan ==
    unit = "test_mtu_ipv6" =>
        LET k == Echoed(given)
            n == IF k < Len(mtu_sizes) THEN k + 1 ELSE k
        IN  /\ got.probed = SubSeq(mtu_sizes, 1, n)
            /\ got.max_mtu = (IF k = 0 THEN 0 ELSE mtu_sizes[k])
            /\ got.recommended_mtu = (IF k = 0 THEN 0 ELSE mtu_sizes[k] - 20)
            /\ got.tested_sizes = got.probed

\* A ping reply reached _ping_ipv6.
PingParsed == unit = "ping_ipv6" /\ given.output # None
Has(f) == f \in DOMAIN got
\* The times of the per-packet lines that carry a time in ms.
MsTimes == SelectSeq(given.case.times, LAMBDA t : t # Micro)

\* C13: for a ping reply with per-packet lines only (no summary line, no
\* round-trip line) the result has success = true, min, max and average of
\* the times of those lines, and packets_received = their number.
C13_PerPacketLinesOnly ==
    (/\ PingParsed
     /\ given.case.summary = "none" /\ ~given.case.round_trip
     /\ MsTimes # <<>> /\ MsTimes = given.case.times)
    => /\ got.success = TRUE
       /\ Has("min_time_ms") /\ got.min_time_ms = float(min(MsTimes))
       /\ Has("max_time_ms") /\ got.max_time_ms = float(max(MsTimes))
       /\ Has("avg_time_ms") /\ got.avg_time_ms = Frac(sum(MsTimes), Len(MsTimes))
       /\ Has("packets_received") /\ got.packets_received = Len(MsTimes)

\* C14: when the reply has a summary line that parses, packets_received,
\* packet_loss_percent and success of the result are those of the summary
\* line, whatever the per-packet lines add up to.
C14_SummaryPreferred ==
    (PingParsed /\ given.case.summary = "received")
    => /\ Has("packets_received") /\ got.packets_received = Len(given.case.times)
       /\ Has("packet_loss_percent")
       /\ got.packet_loss_percent = float(LossPercent(given.case))
       /\ got.success = (LossPercent(given.case) < 100)

\* C15: for a reply with a summary line 'S packets transmitted, R received,
\* L% packet loss' and a round-trip min/avg/max line, the result has
\* packets_sent = S, packets_received = R, packet_loss = L, min, avg and max
\* of the round-trip line, and success exactly when L < 100.
C15_SummaryAndRoundTrip ==
    (/\ PingParsed
     /\ given.case.summary = "received"
     /\ given.case.round_trip /\ given.case.times # <<>>
     /\ MsTimes = given.case.times)
    => /\ Has("packets_sent") /\ got.packets_sent = PingCount
       /\ got.packets_received = Len(given.case.times)
       /\ got.packet_loss_percent = float(LossPercent(given.case))
       /\ got.min_time_ms = float(RoundTrip(given.case).min)
       /\ got.avg_time_ms = float(RoundTrip(given.case).avg)
       /\ got.max_time_ms = float(RoundTrip(given.case).max)
       /\ got.success = (LossPercent(given.case) < 100)

\* The targets a run of the verifier probes.
TargetsOf(x) == IF x.test_targets = <<>> THEN DefaultTargets ELSE x.test_targets

\* The probe whose result the report keeps for the i-th listed target: the
\* last one sent to that address.
Kept(targets, i) == \A j \in (i + 1)..Len(targets) : targets[j] # targets[i]

\* The commands are: a ping of the gateway, a ping of each listed target in
\* turn, then the MTU probes in ascending size.
ProbeOrder ==
    LET targets == TargetsOf(given)
        n == Len(targets)
        probed == got.results.mtu_test.probed
    IN  /\ Len(got.commands) = 1 + n + Len(probed)
        /\ got.commands[1] = PingCommand(given.gateway)
        /\ \A i \in 1..n : got.commands[1 + i] = PingCommand(targets[i])
        /\ \A i \in 1..Len(probed) :
               got.commands[1 + n + i] = MtuCommand(given.gateway, mtu_sizes[i])

\* C16 (as stated): the verifier pings the gateway, then each external target
\* once, then probes the MTU; its overall status is success exactly when the
\* gateway probe succeeded, at least one external-target probe succeeded and
\* max_mtu >= 1280.
C16_AnyProbeSucceeded ==
    (unit = "test_ipv6_connectivity" /\ got.results # <<>>) =>
        LET r == got.results
            targets == TargetsOf(given)
        IN  /\ (r.summary.overall_status = "SUCESSO")
               <=> (/\ ping_ipv6(given.pings[1], given.gateway).success
                    /\ \E i \in 1..Len(targets) :
                           ping_ipv6(given.pings[1 + i], targets[i]).success
                    /\ r.mtu_test.max_mtu >= 1280)
            /\ ProbeOrder

\* C16 (amended): the verifier pings the gateway, then sends one probe per
\* entry of the target list, then probes the MTU; its overall status is
\* success exactly when the gateway probe succeeded, the probe the report
\* keeps for at least one external target (the last one sent to that target)
\* succeeded, and max_mtu >= 1280.
C16_OverallStatus ==
    (unit = "test_ipv6_connectivity" /\ got.results # <<>>) =>
        LET r == got.results
            targets == TargetsOf(given)
        IN  /\ (r.summary.overall_status = "SUCESSO")
               <=> (/\ ping_ipv6(given.pings[1], given.gateway).success
                    /\ \E i \in 1..Len(targets) :
                           /\ Kept(targets, i)
                           /\ ping_ipv6(given.pings[1 + i], targets[i]).success
                    /\ r.mtu_test.max_mtu >= 1280)
            /\ r.summary.overall_status \in {"SUCESSO", "PROBLEMAS"}
            /\ ProbeOrder

\* A run with two external targets of which only the second answers, an
\* answering gateway and a working MTU: the status is success.
C16_Witness ==
    /\ unit = "test_ipv6_connectivity"
    /\ got.results # <<>>
    /\ given.test_targets = <<"t1", "t2">>
    /\ ~got.results.external_tests["t1"].success
    /\ got.results.external_tests["t2"].success
    /\ got.results.summary.overall_status = "SUCESSO"
    /\ got.results.mtu_test.max_mtu = 1500

\* C17: when the reply to the l2tp-server listing has a session line that
\* contains the desired name up to letter case, whatever the letter case of
\* the name and of the line (its bracketed interface token included), the
\* lookup returns an interface.
C17_LookupIgnoresCase ==
    (/\ unit = "find_l2tp_tunnel_by_name"
     /\ given.output # None
     /\ \E i \in 1..Len(given.lines) :
            Contains(Lower(given.lines[i]), Lower(given.tunnel_name)))
    => got # <<>>

\* A loader read a file that exists; the field count it asks for; the number
\* of mappings it returned.
Loaded == unit \in {"load_tunnel_mapping", "load_client_mapping", "load_hosts"} /\ given.exists
FieldCount ==
    CASE unit = "load_tunnel_mapping" -> 6
      [] unit = "load_client_mapping" -> 4
      [] OTHER -> 3
Returned_count == IF unit = "load_hosts" THEN Len(got) ELSE Cardinality(DOMAIN got)

\* A well-formed line: not blank, not a comment, the right number of fields.
Commas(line) == Cardinality({i \in 1..Len(line) : line[i] = ","})
FirstInk(line) == CHOOSE i \in 1..Len(line) : line[i] # SP /\ \A j \in 1..(i - 1) : line[j] = SP
WellFormed(line) ==
    /\ \E i \in 1..Len(line) : line[i] # SP
    /\ line[FirstInk(line)] # "#"
    /\ Commas(line) = FieldCount - 1
WellFormedLines == SelectSeq(given.lines, WellFormed)
\* The key of a well-formed line: its first field without the blanks around.
KeyOf(line) == line[FirstInk(line)]

\* C18 (as stated): a loader skips the lines with a wrong field count, the
\* blank lines and the comments without failing, and returns no fewer
\* mappings than its file has well-formed lines.
C18_NeverBelowWellFormed ==
    Loaded => Returned_count >= Len(WellFormedLines)

\* C18 (amended): a loader skips the lines with a wrong field count, the
\* blank lines and the comments without failing; load_hosts returns no fewer
\* entries than its file has well-formed lines, and the two mapping loaders
\* return no fewer mappings than the well-formed lines of their file have
\* distinct keys.
C18_LoadersSkipMalformed ==
    Loaded =>
        /\ Returned_count <= Len(WellFormedLines)
        /\ Returned_count >=
              (IF unit = "load_hosts" THEN Len(WellFormedLines)
               ELSE Cardinality({KeyOf(WellFormedLines[i]) : i \in 1..Len(WellFormedLines)}))

\* A tunnel mapping file with a line of the wrong field count between two
\* well-formed lines of different keys: both mappings are returned.
C18_Witness ==
    /\ unit = "load_tunnel_mapping"
    /\ given.exists
    /\ given.lines = <<FieldsLine("k1", 6), FieldsLine("k1", 5), FieldsLine("k2", 6)>>
    /\ Cardinality(DOMAIN got) = 2

\* An address listing reached the parser.
AddressesParsed == unit = "parse_ipv6_addresses" /\ given.output # None
RoutesParsed == unit = "parse_ipv6_routes" /\ given.output # None
\* The id the device gives the i-th line of a listing.
IdOf(i) == <<Digits[i]>>

\* C19: when an address listing has a malformed entry line (a numbered line
\* with fewer than five tokens) next to well-formed entries,
\* _parse_ipv6_addresses does not raise and list_ipv6_addresses returns the
\* well-formed entries.
C19_MalformedLinesSkipped ==
    (/\ AddressesParsed
     /\ \E i \in 1..Len(given.lines) : given.lines[i].kind = "short"
     /\ \E i \in 1..Len(given.lines) : given.lines[i].kind = "entry")
    => /\ ~got.parsed.raised
       /\ \A i \in 1..Len(given.lines) :
              given.lines[i].kind = "entry"
              => \E k \in 1..Len(got.listed) :
                     /\ got.listed[k].id = IdOf(i)
                     /\ got.listed[k].address = <<given.lines[i].host, "/", "126">>

\* C20: for a listing of k well-formed entry lines each parser returns k
\* records in the order of the listing, the last entry included; this holds
\* of _parse_ipv6_addresses and of _parse_ipv6_routes.
C20_EveryEntryEmitted ==
    /\ (/\ AddressesParsed
        /\ \A i \in 1..Len(given.lines) : given.lines[i].kind = "entry")
       => /\ ~got.parsed.raised
          /\ Len(got.parsed.addresses) = Len(given.lines)
          /\ \A i \in 1..Len(given.lines) : got.parsed.addresses[i].id = IdOf(i)
    /\ RoutesParsed
       => /\ Len(got.parsed) = Len(given.table)
          /\ \A i \in 1..Len(given.table) : got.parsed[i].id = IdOf(i)

\* C21: the recommended MTU is max_mtu - 20 when max_mtu > 20 and max_mtu
\* itself otherwise; whatever the probes got (no size answering included, max_mtu
\* = 0) it is neither negative nor above max_mtu.
C21_RecommendedMtu ==
    unit = "test_mtu_ipv6" =>
        /\ got.recommended_mtu = (IF got.max_mtu > 20 THEN got.max_mtu - 20 ELSE got.max_mtu)
        /\ got.recommended_mtu >= 0
        /\ got.recommended_mtu <= got.max_mtu

\* No size answered: max_mtu and the recommended MTU are 0.
C21_Witness ==
    /\ unit = "test_mtu_ipv6"
    /\ got.probed = <<1280>>
    /\ got.max_mtu = 0
    /\ got.recommended_mtu = 0

\* A probe reply that reports no packet received.
ZeroReceived ==
    <<"1", SP, "packets transmitted", ",", SP, "0", SP, "received", ",", SP,
      "100", "%", SP, "packet loss">>

\* C26: max_mtu advances only for sizes whose probe got an echo reply: when
\* the first probe without an echo reply reports zero packets received, the
\* scan stops there and max_mtu is the last size that answered before it.
C26_ZeroReceivedIsNoResponse ==
    LET k == Echoed(given)
    IN  (/\ unit = "test_mtu_ipv6"
         /\ k < Len(mtu_sizes)
         /\ given[k + 1] = ZeroReceived)
        => /\ got.max_mtu = (IF k = 0 THEN 0 ELSE mtu_sizes[k])
           /\ got.probed = SubSeq(mtu_sizes, 1, k + 1)

\* The reply carries a rejection marker / the conflict marker of its step.
HasRejection(output) ==
    \/ Contains(Lower(output), <<"syntax error">>)
    \/ Contains(Lower(output), <<"failure">>)
HasConflict(output, marker) == Contains(Lower(output), marker)

\* C22: an add step is Failed exactly when the reply has a rejection marker
\* and not the conflict marker of the step, Skipped exactly when it has the
\* conflict marker (with or without a rejection marker), and Applied
\* otherwise, an empty reply included.
C22_ThreeWayClassification ==
    unit = "add_step" =>
        LET rejected == HasRejection(given.output)
            conflict == HasConflict(given.output, given.marker)
        IN  /\ (got = "Failed") <=> (rejected /\ ~conflict)
            /\ (got = "Skipped") <=> conflict
            /\ (got = "Applied") <=> (~rejected /\ ~conflict)

\* How many times command c stands in the command log of the current item.
Issued(c) == Cardinality({i \in 1..Len(cmds) : cmds[i] = c})

\* C23: within one pass no configuration command is retried: for the tunnel
\* or client being configured the address add and the route add are each
\* issued at most once, whatever the reply was (a rejection, a conflict, an
\* empty reply or none at all), and never one right after itself.
C23_NoRetry ==
    /\ Issued("addr_add") <= 1
    /\ Issued("route_add") <= 1
    /\ \A i \in 1..(Len(cmds) - 1) : IsAdd(cmds[i]) => cmds[i + 1] # cmds[i]

\* A tunnel whose address command was rejected: the item is over after that
\* one command.
C23_Witness ==
    /\ pc = "tunnel_done"
    /\ last = [c |-> "addr_add", r |-> "rejected"]
    /\ Issued("addr_add") = 1
    /\ Issued("route_add") = 0

\* The bracketed l2tp interface token a listing line carries, in the line's
\* own spelling, found without regard to letter case; <<>> when it has none.
CarriedToken(line) ==
    LET low == Lower(line)
        tok == search_l2tp_bracket(low)
    IN  IF tok = <<>> THEN <<>>
        ELSE LET i == CHOOSE k \in 1..Len(low) :
                          /\ BracketAt(low, k) # <<>>
                          /\ \A h \in 1..(k - 1) : BracketAt(low, h) = <<>>
             IN  SubSeq(line, i + 1, i + Len(tok))

\* The session lines of the listing that contain the name up to letter case
\* and carry a bracketed l2tp interface token.
MatchingLines ==
    {i \in 1..Len(given.lines) :
        /\ Contains(Lower(given.lines[i]), Lower(given.tunnel_name))
        /\ CarriedToken(given.lines[i]) # <<>>}

\* C24: when several lines of the listing match the desired name, the lookup
\* returns the interface of the first line, in listing order, that contains
\* the name up to letter case and carries a bracketed l2tp interface token,
\* never the interface of a later matching line.
C24_FirstMatchWins ==
    (/\ unit = "find_l2tp_tunnel_by_name"
     /\ given.output # None
     /\ Cardinality(MatchingLines) > 1)
    => got = CarriedToken(given.lines[CHOOSE i \in MatchingLines :
                                          \A k \in MatchingLines : i <= k])

\* A removal ran against a listing that was delivered; the entries of the
\* listing that hold the fact to remove; the remove commands sent.
Removal == unit \in {"remove_ipv6_address", "remove_ipv6_route"} /\ given.listing # None
Holding(q) ==
    {i \in 1..Len(q) : (IF unit = "remove_ipv6_address" THEN q[i].host ELSE q[i].dst)
                        = given.wanted}
Removes == SelectSeq(got.commands, LAMBDA c : c.c \in {"address remove", "route remove"})

\* C30: a removal is idempotent: when the listing shows an entry of the fact,
\* exactly one remove command is sent, for the number of that entry; when it
\* shows none, no remove command is sent and the result is True; so when the
\* device accepts removes a True result means the fact is gone from the
\* device, wherever its entry stood in the listing.
C30_IdempotentRemoval ==
    Removal =>
        /\ Holding(given.shown) # {}
           => /\ Len(Removes) = 1
              /\ NumberOfId(Removes[1].arg) \in Holding(given.shown)
        /\ Holding(given.shown) = {}
           => Removes = <<>> /\ got.result = TRUE
        /\ (given.remove_reply = <<>> /\ got.result = TRUE)
           => Holding(got.left) = {}

\* The client pass is at one host (connecting, configuring or counting it);
\* the pass is running or has just returned.
AtHost ==
    pc \in {"client_connect", "client_iface", "client_bridges", "client_addr",
            "client_addr_verify", "client_route", "client_route_verify", "client_ping",
            "client_mtu", "client_done"}
InClientPass == AtHost \/ pc \in {"client_next", "report"}

\* C29: throughout configure_l2tp_clients 0 <= success_count <= total_count
\* and total_count is the number of hosts of the inventory; a host without a
\* client mapping is never connected to and never counted as a success, so
\* one such host makes success_count < total_count and the exit code 1.
C29_UnmappedHostNeverCounted ==
    /\ InClientPass =>
          /\ 0 <= success_count
          /\ success_count <= total_count
          /\ total_count = n_hosts
          /\ success_count <= tally.hVisited - tally.hSkip
          /\ tally.hSkip > 0 => success_count < total_count
    /\ AtHost => Head(client_hosts).hostname \in client_mappings
    /\ (pc = "client_next" /\ client_hosts # <<>>
           /\ Head(client_hosts).hostname \notin client_mappings) => sessions = {}
    /\ (pc = "exited" /\ tally.hSkip > 0) => exit_code = 1

\* The inventory had a mapped host, configured with success, and a host
\* without a mapping, after a server pass that succeeded.
C29_Witness ==
    /\ pc = "exited"
    /\ exit_code = 1
    /\ server_success
    /\ n_hosts = 2
    /\ tally.hSkip = 1
    /\ tally.hOk = 1
    /\ success_count = 1
    /\ total_count = 2

\* C28: over any sequence of connect_ssh, connect_telnet and disconnect
\* calls on one connection object, is_connected() is true exactly when a
\* session the object opened is still open, a connect that failed leaves
\* is_connected() false, and after a disconnect every session the object
\* ever opened is closed.
C28_NoSessionLeft ==
    unit = "connection_calls" =>
        \A i \in 1..Len(given) :
            /\ got[i].connected <=> (got[i].open # {})
            /\ (given[i].f # "disconnect" /\ given[i].outcome # "ok") => ~got[i].connected
            /\ given[i].f = "disconnect" => got[i].open = {}

\* The value an operation returns for a failure or for nothing.
FailureValue(op) ==
    CASE op \in {"list_ipv6_addresses", "list_ipv6_routes", "test_ipv6_connectivity"} -> <<>>
      [] op = "execute_command" -> None
      [] OTHER -> FALSE

\* C27: every operation of the engine called without a connection (add,
\* remove and list of addresses and of routes, configure_l2tp_server_tunnel,
\* configure_l2tp_client, test_ipv6_connectivity, execute_command) returns
\* its failure or empty value (False, [], {} or None) and sends no command.
C27_NotConnected ==
    (/\ unit = "engine_call"
     /\ given.op \in PublicOps
     /\ ~is_connected(given.conn))
    => /\ got.delivered.commands = <<>>
       /\ got.delivered.result = FailureValue(given.op)

\* add_ipv6_address was called without a connection.
C27_Witness ==
    /\ unit = "engine_call"
    /\ given.op = "add_ipv6_address"
    /\ given.conn = NoConn
    /\ got.delivered = [result |-> FALSE, commands |-> <<>>]

\* C25: an absent reply cannot be told from an empty one: whichever reply of
\* an operation (add, remove, list of addresses and routes, tunnel lookup,
\* interface existence, bridge listing, ping and MTU probes) is None instead
\* of empty, the operation returns the same and sends the same commands.
C25_AbsentIsEmpty ==
    (/\ unit = "engine_call"
     /\ given.op # "execute_command"
     /\ is_connected(given.conn))
    => /\ got.absent.commands = got.empty.commands
       /\ got.absent.result = got.empty.result

====
